---- MODULE Spec2Model ----
(***************************************************************************)
(* Atom-netlist transformation passes of vpr/SRC/base/atom_netlist_utils.c *)
(* (absorb_buffer_luts, the sweep_* passes and sweep_iterative) over the   *)
(* Atom Netlist Store (blocks, pins, nets with tombstone-on-remove).       *)
(***************************************************************************)
EXTENDS Integers, Sequences, FiniteSets, TLC

(***************************************************************************)
(* Bounds of the explored family of netlists.                              *)
(***************************************************************************)
\* Largest number of sinks a net of the initial netlist may have.
MaxFanout == 2

(***************************************************************************)
(* The blocks of the explored netlists: one primary input, two buffer      *)
(* LUTs, one single-input inverter LUT and one primary output.  Blocks,    *)
(* ports and pins are created once (by the gate-level reader) and are only *)
(* removed afterwards, so this structure is static.                        *)
(***************************************************************************)
BlockOrder == <<"pi", "b1", "b2", "lut", "po">>

Blocks == {BlockOrder[i] : i \in 1..Len(BlockOrder)}

INVALID_PIN == <<"INVALID", "none">>

INVALID_NET == 0

block_type(blk) ==
    CASE blk = "pi" -> "INPAD"
      [] blk = "po" -> "OUTPAD"
      [] OTHER -> "COMBINATIONAL"

block_model(blk) ==
    CASE blk = "pi" -> "input"
      [] blk = "po" -> "output"
      [] OTHER -> "names"

\* Rows of logic values, the last entry of a row being the output value.
block_truth_table(blk) ==
    CASE blk = "b1" -> << <<"TRUE", "TRUE">> >>
      [] blk = "b2" -> << <<"FALSE", "FALSE">> >>
      [] blk = "lut" -> << <<"FALSE", "TRUE">> >>
      [] OTHER -> << >>

InPin(blk) == <<blk, "in">>

OutPin(blk) == <<blk, "out">>

block_input_pins(blk) == IF block_type(blk) = "INPAD" THEN {} ELSE {InPin(blk)}

block_output_pins(blk) == IF block_type(blk) = "OUTPAD" THEN {} ELSE {OutPin(blk)}

block_clock_pins(blk) == {}

block_pins(blk) == block_input_pins(blk) \cup block_output_pins(blk) \cup block_clock_pins(blk)

\* Every block of the family has at most one input port and one output port.
block_input_ports(blk) == block_input_pins(blk)

block_output_ports(blk) == block_output_pins(blk)

Pins == UNION {block_pins(b) : b \in Blocks}

pin_block(pin) == pin[1]

pin_type(pin) ==
    IF pin = INVALID_PIN THEN "INVALID"
    ELSE IF pin[2] = "out" THEN "DRIVER" ELSE "SINK"

DriverBlocks == {b \in Blocks : block_output_pins(b) # {}}

SinkBlocks == {b \in Blocks : block_input_pins(b) # {}}

(***************************************************************************)
(* Sequence helpers.                                                       *)
(***************************************************************************)
Range(s) == {s[i] : i \in 1..Len(s)}

\* All orders in which the elements of a set can be visited.
Perms(S) ==
    {s \in [1..Cardinality(S) -> S] : \A i, j \in 1..Cardinality(S) : i # j => s[i] # s[j]}

\* The elements of S in the order of the block ids.
InBlockOrder(S) == SelectSeq(BlockOrder, LAMBDA b : b \in S)

(***************************************************************************)
(* Atom Netlist Store: queries.                                            *)
(***************************************************************************)
valid_pin_id(nl, pin) == pin \in Pins /\ pin_block(pin) \in nl.block_ids

valid_net_id(nl, net) == net \in nl.net_ids

pin_net(nl, pin) == IF valid_pin_id(nl, pin) THEN nl.pin_nets[pin] ELSE INVALID_NET

net_driver(nl, net) == nl.net_driver[net]

net_sinks(nl, net) == nl.net_sinks[net]

\* The driver slot followed by the sinks.
net_pins(nl, net) == <<nl.net_driver[net]>> \o nl.net_sinks[net]

net_name(nl, net) == nl.net_names[net]

LivePins(nl) == {p \in Pins : valid_pin_id(nl, p)}

(***************************************************************************)
(* Atom Netlist Store: mutators.                                           *)
(***************************************************************************)
\* Detach one pin from its net: a driver leaves the driver slot invalid, a
\* sink is erased from the sink list.
remove_net_pin(nl, net, pin) ==
    [nl EXCEPT
        !.net_driver = IF valid_net_id(nl, net) /\ nl.net_driver[net] = pin
                       THEN [@ EXCEPT ![net] = INVALID_PIN] ELSE @,
        !.net_sinks = IF valid_net_id(nl, net) /\ nl.net_driver[net] # pin
                      THEN [@ EXCEPT ![net] = SelectSeq(@, LAMBDA p : p # pin)] ELSE @,
        !.pin_nets = [@ EXCEPT ![pin] = INVALID_NET]]

RECURSIVE remove_pins(_, _)
remove_pins(nl, pins) ==
    IF pins = {} THEN nl
    ELSE LET pin == CHOOSE p \in pins : TRUE
         IN remove_pins(remove_net_pin(nl, nl.pin_nets[pin], pin), pins \ {pin})

remove_block(nl, blk) ==
    [remove_pins(nl, block_pins(blk)) EXCEPT !.block_ids = @ \ {blk}]

remove_net(nl, net) ==
    [nl EXCEPT
        !.pin_nets = [p \in Pins |-> IF nl.pin_nets[p] = net THEN INVALID_NET ELSE nl.pin_nets[p]],
        !.net_ids = @ \ {net},
        !.net_driver = [n \in nl.net_ids \ {net} |-> nl.net_driver[n]],
        !.net_sinks = [n \in nl.net_ids \ {net} |-> nl.net_sinks[n]],
        !.net_names = [n \in nl.net_ids \ {net} |-> nl.net_names[n]]]

\* TRUE when add_net(name, ...) fails with DuplicateName.
add_net_duplicate(nl, name) == \E n \in nl.net_ids : nl.net_names[n] = name

add_net(nl, name, driver, sinks) ==
    LET id == nl.next_net_id
        ids == nl.net_ids \cup {id}
    IN [nl EXCEPT
        !.net_ids = ids,
        !.net_driver = [n \in ids |-> IF n = id THEN driver ELSE nl.net_driver[n]],
        !.net_sinks = [n \in ids |-> IF n = id THEN sinks ELSE nl.net_sinks[n]],
        !.net_names = [n \in ids |-> IF n = id THEN name ELSE nl.net_names[n]],
        !.pin_nets = [p \in Pins |-> IF p = driver \/ p \in Range(sinks) THEN id ELSE nl.pin_nets[p]],
        !.next_net_id = id + 1]

(***************************************************************************)
(* Buffer absorption.                                                      *)
(***************************************************************************)
connected_pins(nl, pins) == {p \in pins : p # INVALID_PIN /\ pin_net(nl, p) # INVALID_NET}

\* is_buffer_lut over what it reads of the block b: its type, its model,
\* the numbers of its input and output ports and of its connected input and
\* output pins, its truth table.  It returns a value or fails an assertion.
is_buffer_lut_checks(b) ==
    IF /\ b.type = "COMBINATIONAL"
       /\ b.model = "names"
       /\ b.input_ports = 1 /\ b.output_ports = 1
       /\ b.connected_input_pins = 1 /\ b.connected_output_pins = 1
    THEN IF Len(b.truth_table) # 1
         THEN [value |-> FALSE, failure |-> "One truth-table row"]
         ELSE IF Len(b.truth_table[1]) # 2
         THEN [value |-> FALSE, failure |-> "Two truth-table row entries"]
         ELSE [value |-> \/ b.truth_table[1][1] = "TRUE" /\ b.truth_table[1][2] = "TRUE"
                         \/ b.truth_table[1][1] = "FALSE" /\ b.truth_table[1][2] = "FALSE",
               failure |-> "none"]
    ELSE [value |-> FALSE, failure |-> "none"]

\* The blocks of the netlists swept have truth tables of one row of two
\* entries: on them no assertion of is_buffer_lut fails.
is_buffer_lut(nl, blk) ==
    is_buffer_lut_checks(
        [type |-> block_type(blk),
         model |-> block_model(blk),
         input_ports |-> Cardinality(block_input_ports(blk)),
         output_ports |-> Cardinality(block_output_ports(blk)),
         connected_input_pins |-> Cardinality(connected_pins(nl, block_input_pins(blk))),
         connected_output_pins |-> Cardinality(connected_pins(nl, block_output_pins(blk))),
         truth_table |-> block_truth_table(blk)]).value

\* The first live block that is a buffer LUT, alone.
identify_first_buffer_lut(nl) ==
    LET found == SelectSeq(BlockOrder, LAMBDA blk : blk \in nl.block_ids /\ is_buffer_lut(nl, blk))
    IN IF found = <<>> THEN <<>> ELSE <<Head(found)>>

\* The live blocks that are buffer LUTs, in the order of netlist.blocks().
identify_buffer_luts(nl) ==
    SelectSeq(BlockOrder, LAMBDA blk : blk \in nl.block_ids /\ is_buffer_lut(nl, blk))

\* The values remove_buffer_lut computes before it changes the netlist.
buffer_input_pin(blk) == CHOOSE p \in block_input_pins(blk) : TRUE

buffer_output_pin(blk) == CHOOSE p \in block_output_pins(blk) : TRUE

buffer_input_net(nl, blk) == pin_net(nl, buffer_input_pin(blk))

buffer_output_net(nl, blk) == pin_net(nl, buffer_output_pin(blk))

\* The driver taken from the output net instead of the input net.
buffer_new_driver_of_output_net(nl, blk) == net_driver(nl, buffer_output_net(nl, blk))

buffer_new_driver(nl, blk) == net_driver(nl, buffer_input_net(nl, blk))

\* The sinks of the input net without the buffer's input pin, then the sinks
\* of the output net.
buffer_new_sinks(nl, blk) ==
    SelectSeq(net_sinks(nl, buffer_input_net(nl, blk)), LAMBDA id : id # buffer_input_pin(blk))
        \o net_sinks(nl, buffer_output_net(nl, blk))

buffer_driver_is_pi(nl, blk) ==
    block_type(pin_block(buffer_new_driver(nl, blk))) = "INPAD"

buffer_po_in_sinks(nl, blk) ==
    \E i \in 1..Len(buffer_new_sinks(nl, blk)) :
        block_type(pin_block(buffer_new_sinks(nl, blk)[i])) = "OUTPAD"

\* No early return for a buffer between a primary input and a primary output.
buffer_is_kept_never(nl, blk) == FALSE

\* TRUE when remove_buffer_lut returns without touching the netlist.
buffer_is_kept(nl, blk) == buffer_driver_is_pi(nl, blk) /\ buffer_po_in_sinks(nl, blk)

\* The merged net always named after the output net.
buffer_new_net_name_always_output(nl, blk) == net_name(nl, buffer_output_net(nl, blk))

buffer_new_net_name(nl, blk) ==
    IF ~buffer_driver_is_pi(nl, blk) /\ ~buffer_po_in_sinks(nl, blk)
    THEN net_name(nl, buffer_output_net(nl, blk))
    ELSE IF buffer_driver_is_pi(nl, blk) /\ ~buffer_po_in_sinks(nl, blk)
    THEN net_name(nl, buffer_input_net(nl, blk))
    ELSE net_name(nl, buffer_output_net(nl, blk))

\* The input net is left in place.
buffer_nets_removed_output_only(nl, blk) ==
    remove_net(remove_block(nl, blk), buffer_output_net(nl, blk))

\* The output net is left in place.
buffer_nets_removed_input_only(nl, blk) ==
    remove_net(remove_block(nl, blk), buffer_input_net(nl, blk))

\* The netlist after the block and the two nets are removed.
buffer_nets_removed(nl, blk) ==
    remove_net(remove_net(remove_block(nl, blk), buffer_input_net(nl, blk)),
               buffer_output_net(nl, blk))

\* "none", or the check of remove_buffer_lut that stops the program.
remove_buffer_lut_failure(nl, blk) ==
    LET input_net == buffer_input_net(nl, blk)
        output_net == buffer_output_net(nl, blk)
        new_sinks == buffer_new_sinks(nl, blk)
        removed == remove_block(nl, blk)
    IN IF pin_type(buffer_new_driver(nl, blk)) # "DRIVER" THEN "AssertDriverType"
       ELSE IF Len(new_sinks) # Len(net_sinks(nl, input_net)) + Len(net_sinks(nl, output_net)) - 1
       THEN "AssertSinkCount"
       ELSE IF \E i \in 1..Len(new_sinks) : pin_type(new_sinks[i]) # "SINK" THEN "AssertSinkType"
       ELSE IF buffer_is_kept(nl, blk) THEN "none"
       ELSE IF Len(net_pins(removed, input_net)) # Len(net_pins(nl, input_net)) - 1
       THEN "AssertInputNetPins"
       ELSE IF net_driver(removed, output_net) # INVALID_PIN THEN "AssertOutputDriver"
       ELSE IF add_net_duplicate(buffer_nets_removed(nl, blk), buffer_new_net_name(nl, blk))
       THEN "DuplicateName"
       ELSE "none"

\* The merged net is never created.
remove_buffer_lut_without_add_net(nl, blk) ==
    IF buffer_is_kept(nl, blk) THEN nl ELSE buffer_nets_removed(nl, blk)

remove_buffer_lut(nl, blk) ==
    IF buffer_is_kept(nl, blk) THEN nl
    ELSE add_net(buffer_nets_removed(nl, blk), buffer_new_net_name(nl, blk),
                 buffer_new_driver(nl, blk), buffer_new_sinks(nl, blk))

\* The loop of absorb_buffer_luts over the buffers it has identified: the
\* netlist it leaves, and the check that has stopped it.
RECURSIVE remove_buffer_luts(_, _)
remove_buffer_luts(nl, luts) ==
    IF luts = <<>> THEN [netlist |-> nl, failure |-> "none"]
    ELSE IF remove_buffer_lut_failure(nl, Head(luts)) # "none"
    THEN [netlist |-> nl, failure |-> remove_buffer_lut_failure(nl, Head(luts))]
    ELSE remove_buffer_luts(remove_buffer_lut(nl, Head(luts)), Tail(luts))

absorb_buffer_luts(nl) == remove_buffer_luts(nl, identify_buffer_luts(nl))

(***************************************************************************)
(* Sweeps.                                                                 *)
(***************************************************************************)
is_removable_block(nl, blk_id) ==
    \A pin_id \in block_output_pins(blk_id) : pin_net(nl, pin_id) = INVALID_NET

is_removable_input(nl, blk_id) ==
    block_type(blk_id) = "INPAD" /\ is_removable_block(nl, blk_id)

is_removable_output(nl, blk_id) ==
    /\ block_type(blk_id) = "OUTPAD"
    /\ \A pin_id \in block_input_pins(blk_id) : pin_net(nl, pin_id) = INVALID_NET

\* A removal loop that stops after its first removal.
remove_blocks_in_order_first_only(nl, order) ==
    IF order = <<>> THEN nl ELSE remove_block(nl, Head(order))

\* The removal loops: the collected elements are removed in the order given.
RECURSIVE remove_blocks_in_order(_, _)
remove_blocks_in_order(nl, order) ==
    IF order = <<>> THEN nl
    ELSE remove_blocks_in_order(remove_block(nl, Head(order)), Tail(order))

RECURSIVE remove_nets_in_order(_, _)
remove_nets_in_order(nl, order) ==
    IF order = <<>> THEN nl
    ELSE remove_nets_in_order(remove_net(nl, Head(order)), Tail(order))

\* Every block without connected output pin, the pads included.
blocks_to_remove_of_any_type(nl) ==
    {blk_id \in nl.block_ids : is_removable_block(nl, blk_id)}

blocks_to_remove(nl) ==
    {blk_id \in nl.block_ids :
        /\ block_type(blk_id) \notin {"INPAD", "OUTPAD"}
        /\ is_removable_block(nl, blk_id)}

inputs_to_remove(nl) == {blk_id \in nl.block_ids : is_removable_input(nl, blk_id)}

outputs_to_remove(nl) == {blk_id \in nl.block_ids : is_removable_output(nl, blk_id)}

nets_to_remove(nl) ==
    {net_id \in nl.net_ids :
        \/ net_driver(nl, net_id) = INVALID_PIN
        \/ Len(net_sinks(nl, net_id)) = 0}

\* Each sweep gives the netlist after it and the count it returns.
sweep_blocks(nl, order) ==
    [netlist |-> remove_blocks_in_order(nl, order), count |-> Cardinality(blocks_to_remove(nl))]

sweep_inputs(nl, order) ==
    [netlist |-> remove_blocks_in_order(nl, order), count |-> Cardinality(inputs_to_remove(nl))]

sweep_outputs(nl, order) ==
    [netlist |-> remove_blocks_in_order(nl, order), count |-> Cardinality(outputs_to_remove(nl))]

sweep_nets(nl, order) ==
    [netlist |-> remove_nets_in_order(nl, order), count |-> Cardinality(nets_to_remove(nl))]

net_is_constant(nl, net_id) ==
    net_driver(nl, net_id) # INVALID_PIN /\ net_driver(nl, net_id) \in nl.constant_pins

\* Only a block without connected input pin passes.
all_inputs_are_unconnected(nl, blk_id) ==
    \A pin_id \in block_input_pins(blk_id) : pin_net(nl, pin_id) = INVALID_NET

all_inputs_are_const(nl, blk_id) ==
    \A pin_id \in block_input_pins(blk_id) :
        ~(pin_net(nl, pin_id) # INVALID_NET /\ ~net_is_constant(nl, pin_net(nl, pin_id)))

\* One walk over netlist.blocks(), removing as it goes.
RECURSIVE sweep_constant_primary_outputs_from(_, _)
sweep_constant_primary_outputs_from(acc, blks) ==
    IF blks = <<>> THEN acc
    ELSE LET blk_id == Head(blks)
             hit == /\ blk_id \in acc.netlist.block_ids
                    /\ block_type(blk_id) = "OUTPAD"
                    /\ all_inputs_are_const(acc.netlist, blk_id)
         IN sweep_constant_primary_outputs_from(
                IF hit THEN [netlist |-> remove_block(acc.netlist, blk_id), count |-> acc.count + 1]
                ELSE acc,
                Tail(blks))

sweep_constant_primary_outputs(nl) ==
    sweep_constant_primary_outputs_from([netlist |-> nl, count |-> 0], BlockOrder)

(***************************************************************************)
(* sweep_iterative: flags, counters, loop condition and result.            *)
(***************************************************************************)
Flags ==
    [should_sweep_ios : BOOLEAN, should_sweep_nets : BOOLEAN,
     should_sweep_blocks : BOOLEAN, should_sweep_constant_primary_outputs : BOOLEAN]

ZeroCounts == [nets |-> 0, blocks |-> 0, inputs |-> 0, outputs |-> 0, constant_outputs |-> 0]

\* The additions that end the body of the do-while loop.
accumulate(swept, pass) ==
    [nets |-> swept.nets + pass.nets,
     blocks |-> swept.blocks + pass.blocks,
     inputs |-> swept.inputs + pass.outputs,
     outputs |-> swept.outputs + pass.outputs,
     constant_outputs |-> swept.constant_outputs + pass.constant_outputs]

\* The loop condition without the test of the swept nets.
keep_sweeping_without_nets(pass) ==
    \/ pass.blocks # 0
    \/ pass.inputs # 0
    \/ pass.outputs # 0
    \/ pass.constant_outputs # 0

\* The loop condition testing the swept outputs in place of the swept inputs.
keep_sweeping_without_inputs(pass) ==
    \/ pass.nets # 0
    \/ pass.blocks # 0
    \/ pass.outputs # 0
    \/ pass.outputs # 0
    \/ pass.constant_outputs # 0

\* The condition of the do-while loop.
keep_sweeping(pass) ==
    \/ pass.nets # 0
    \/ pass.blocks # 0
    \/ pass.inputs # 0
    \/ pass.outputs # 0
    \/ pass.constant_outputs # 0

sweep_iterative_result(swept) ==
    swept.nets + swept.blocks + swept.inputs + swept.outputs + swept.constant_outputs

PassTotal(pass) ==
    pass.nets + pass.blocks + pass.inputs + pass.outputs + pass.constant_outputs

Unswept(nl) == [netlist |-> nl, count |-> 0]

\* Number of live blocks and nets.
Elements(nl) == Cardinality(nl.block_ids) + Cardinality(nl.net_ids)

(***************************************************************************)
(* The initial netlists: every sink pin is open or attached to the net of  *)
(* one driver pin, without combinational loops; every driver pin has a net *)
(* (the net of a driver pin without sinks is dangling).                    *)
(***************************************************************************)
SinkOrder == SelectSeq(BlockOrder, LAMBDA b : b \in SinkBlocks)

Connections == [SinkBlocks -> DriverBlocks \cup {"open"}]

RECURSIVE Reaches(_, _, _, _)
\* TRUE when walking upstream from block b for at most n steps meets target.
Reaches(conn, b, target, n) ==
    IF n = 0 \/ b \notin SinkBlocks \/ conn[b] = "open" THEN FALSE
    ELSE conn[b] = target \/ Reaches(conn, conn[b], target, n - 1)

Acyclic(conn) == \A b \in SinkBlocks : ~Reaches(conn, b, b, Cardinality(Blocks))

Fanout(conn, d) == Cardinality({b \in SinkBlocks : conn[b] = d})

InitialNetlist(conn, constant_pins) ==
    LET netted == SelectSeq(BlockOrder, LAMBDA d : d \in DriverBlocks)
        ids == 1..Len(netted)
        id_of(d) == CHOOSE n \in ids : netted[n] = d
    IN [block_ids |-> Blocks,
        net_ids |-> ids,
        pin_nets |-> [p \in Pins |->
            IF p[2] = "out"
            THEN IF p[1] \in Range(netted) THEN id_of(p[1]) ELSE INVALID_NET
            ELSE IF conn[p[1]] = "open" THEN INVALID_NET ELSE id_of(conn[p[1]])],
        net_driver |-> [n \in ids |-> OutPin(netted[n])],
        net_sinks |-> [n \in ids |->
            LET sinks == SelectSeq(SinkOrder, LAMBDA b : conn[b] = netted[n])
            IN [i \in 1..Len(sinks) |-> InPin(sinks[i])]],
        net_names |-> [n \in ids |-> netted[n]],
        constant_pins |-> constant_pins,
        next_net_id |-> Len(netted) + 1]

\* A LUT whose input is open may be marked as a constant generator.
ConstantChoices(conn) == IF conn["lut"] = "open" THEN {{}, {OutPin("lut")}} ELSE {{}}

InitialNetlists ==
    {InitialNetlist(t[1], t[2]) :
        t \in {u \in Connections \X {{}, {OutPin("lut")}} :
                /\ Acyclic(u[1])
                /\ \A d \in DriverBlocks : Fanout(u[1], d) <= MaxFanout
                /\ u[2] \in ConstantChoices(u[1])}}

NoNetlist ==
    [block_ids |-> {}, net_ids |-> {}, pin_nets |-> [p \in Pins |-> INVALID_NET],
     net_driver |-> <<>>, net_sinks |-> <<>>, net_names |-> <<>>,
     constant_pins |-> {}, next_net_id |-> 1]

NoFlags ==
    [should_sweep_ios |-> FALSE, should_sweep_nets |-> FALSE,
     should_sweep_blocks |-> FALSE, should_sweep_constant_primary_outputs |-> FALSE]

NoBuffer == [blk |-> "none", before |-> NoNetlist]

(***************************************************************************)
(* The packed-netlist ingest (read_netlist).                               *)
(*                                                                         *)
(* The architecture has two cluster types of one shape: the cluster's pb   *)
(* (depth 0) has one mode with one child pb type of one slot (depth 1),    *)
(* which has one mode with one primitive pb type of one slot (depth 2).    *)
(* Every port is one pin wide.  The pins of a cluster carry the numbers    *)
(* pin_count_in_cluster gives them:                                        *)
(*    0 cluster input    1 cluster output    2 cluster clock (global)      *)
(*    3 middle input     4 middle output                                   *)
(*    5 primitive input  6 primitive output  7 primitive clock             *)
(***************************************************************************)
OPEN == 0 - 1

NULL == "NULL"

\* The null pb of the atom to pb map; a bound atom maps to <<cluster index>>.
NULL_PB == <<>>

MaxClusters == 2

MaxChildElements == 2

TypeNames == {"io", "clb"}

LeafDepth == 2

pb_type_name(type, d) ==
    IF d = 0 THEN type
    ELSE IF d = 1 THEN (IF type = "io" THEN "pad" ELSE "ble")
    ELSE (IF type = "io" THEN "inpad" ELSE "lut")

num_modes(d) == IF d = LeafDepth THEN 0 ELSE 1

\* pb_type_children[i].num_pb of the one child pb type of a mode.
num_pb == 1

\* The pins of the port of a section, in pin order.
port_pins(d, section) ==
    IF d = 0 THEN (IF section = "inputs" THEN <<0>>
                   ELSE IF section = "outputs" THEN <<1>> ELSE <<2>>)
    ELSE IF d = 1 THEN (IF section = "inputs" THEN <<3>>
                        ELSE IF section = "outputs" THEN <<4>> ELSE <<>>)
    ELSE (IF section = "inputs" THEN <<5>>
          ELSE IF section = "outputs" THEN <<6>> ELSE <<7>>)

total_pb_pins == 8

\* type->num_pins, of a type of capacity 1.
num_pins == 3

pin_class_type(j) == IF j = 1 THEN "DRIVER" ELSE "RECEIVER"

is_global_pin(type, j) == j = 2

\* The names of the interconnects of the output edges of a pin.
output_edges(pin) == IF pin \in {1, 5, 7} THEN {} ELSE {"direct"}

\* The pins a pin name in the token of a pin may resolve to: a pin of the
\* parent for an input or clock, a pin of the child for an output.
upstream_pins(pin) ==
    IF pin = 3 THEN {0, 2}
    ELSE IF pin \in {5, 7} THEN {3}
    ELSE IF pin = 1 THEN {4}
    ELSE IF pin = 4 THEN {6}
    ELSE {}

(***************************************************************************)
(* The atom netlist the packed netlist is read against: of the INPAD pi    *)
(* and the LUT lut, a constant generator, the blocks given; each drives    *)
(* the net of its name.                                                    *)
(***************************************************************************)
RECURSIVE without_blocks(_, _)
without_blocks(nl, blks) ==
    IF blks = {} THEN nl
    ELSE LET blk == CHOOSE b \in blks : TRUE
         IN without_blocks(remove_block(nl, blk), blks \ {blk})

RECURSIVE without_nets(_, _)
without_nets(nl, nets) ==
    IF nets = {} THEN nl
    ELSE LET net == CHOOSE n \in nets : TRUE
         IN without_nets(remove_net(nl, net), nets \ {net})

PackedNetlist(blks) ==
    LET all == InitialNetlist([b \in SinkBlocks |-> "open"], {OutPin("lut")})
    IN without_nets(without_blocks(all, Blocks \ blks),
                    {n \in all.net_ids : all.net_names[n] \notin blks})

find_block(nl, name) == IF name \in nl.block_ids THEN name ELSE "INVALID"

find_net(nl, name) ==
    IF \E n \in nl.net_ids : nl.net_names[n] = name
    THEN CHOOSE n \in nl.net_ids : nl.net_names[n] = name
    ELSE INVALID_NET

pin_is_constant(nl, pin) == pin \in nl.constant_pins

(***************************************************************************)
(* Errors: a vpr_throw (an XmlError is rethrown as one), a failed          *)
(* VTR_ASSERT, or undefined behaviour that ends the program.               *)
(***************************************************************************)
NoError == [kind |-> "none", what |-> "", arg |-> ""]

Throw(what, arg) == [kind |-> "throw", what |-> what, arg |-> arg]

AssertFailed(what) == [kind |-> "assert", what |-> what, arg |-> ""]

Failed(e) == e.kind # "none"

(***************************************************************************)
(* processPorts: the port entry of one section of a pb.  A token is        *)
(* <<"open">>, <<"net", name>> or <<"pin", pin, interconnect>>, the pin    *)
(* being the one the pin name resolves to.                                 *)
(***************************************************************************)
NoRoute == [atom_net_id |-> INVALID_NET, prev_pb_pin_id |-> OPEN]

alloc_pb_route == [p \in 0..(total_pb_pins - 1) |-> NoRoute]

\* The token names a net: a top-level input or clock, or a primitive's output.
names_net(d, section) ==
    IF section = "outputs" THEN num_modes(d) = 0 ELSE d = 0

RECURSIVE process_pins(_, _, _, _, _, _)
process_pins(nl, pb_route, d, section, pins, i) ==
    IF i > Len(pins) THEN [pb_route |-> pb_route, error |-> NoError]
    ELSE LET rr_node_index == port_pins(d, section)[i]
             tok == pins[i]
         IN IF tok[1] = "open"
            THEN process_pins(nl, pb_route, d, section, pins, i + 1)
            ELSE IF names_net(d, section)
            THEN LET net_id == IF tok[1] = "net" THEN find_net(nl, tok[2]) ELSE INVALID_NET
                 IN IF net_id = INVALID_NET
                    THEN [pb_route |-> pb_route,
                          error |-> Throw("unknown net", IF tok[1] = "net" THEN tok[2] ELSE "")]
                    ELSE process_pins(nl,
                            [pb_route EXCEPT ![rr_node_index].atom_net_id = net_id],
                            d, section, pins, i + 1)
            ELSE IF tok[1] # "pin"
            THEN [pb_route |-> pb_route, error |-> AssertFailed("loc != std::string::npos")]
            ELSE LET routed == [pb_route EXCEPT ![rr_node_index].prev_pb_pin_id = tok[2]]
                 IN IF tok[3] \in output_edges(tok[2])
                    THEN process_pins(nl, routed, d, section, pins, i + 1)
                    ELSE [pb_route |-> routed, error |-> Throw("Unknown interconnect", tok[3])]

\* The port entry handled with the count of its tokens compared after the
\* loop over the pins instead of before.
processPorts_count_checked_last(nl, pb_route, d, section, pins) ==
    LET width == Len(port_pins(d, section))
        done == process_pins(nl, pb_route, d, section,
                             SubSeq(pins, 1, IF Len(pins) < width THEN Len(pins) ELSE width), 1)
    IN IF Failed(done.error) \/ Len(pins) = width THEN done
       ELSE [pb_route |-> done.pb_route, error |-> Throw("Incorrect # pins", section)]

\* The body of the loop over the port entries of a section, for one entry.
processPorts(nl, pb_route, d, section, pins) ==
    IF Len(pins) # Len(port_pins(d, section))
    THEN [pb_route |-> pb_route, error |-> Throw("Incorrect # pins", section)]
    ELSE process_pins(nl, pb_route, d, section, pins, 1)

(***************************************************************************)
(* The transitive fill of the net ids of a cluster.                        *)
(***************************************************************************)
\* Each fill gives the pb_route it leaves, the assertion it fails, and
\* resolved: the entries load_atom_index_for_pb_pin has assigned, in the
\* order of the assignments.
\* The fill of one pin that takes the net id of its driver as it is,
\* without filling the driver first.
load_atom_index_for_pb_pin_without_recursion(pb_route, ipin) ==
    LET driver == pb_route[ipin].prev_pb_pin_id
    IN [pb_route |-> [pb_route EXCEPT ![ipin].atom_net_id = pb_route[driver].atom_net_id],
        error |-> NoError,
        resolved |-> <<ipin>>]

RECURSIVE load_atom_index_for_pb_pin(_, _)
load_atom_index_for_pb_pin(pb_route, ipin) ==
    LET driver == pb_route[ipin].prev_pb_pin_id
    IN IF driver = OPEN
       THEN [pb_route |-> pb_route, error |-> AssertFailed("driver != OPEN"),
             resolved |-> <<>>]
       ELSE IF pb_route[ipin].atom_net_id # INVALID_NET
       THEN [pb_route |-> pb_route, error |-> AssertFailed("!pb_route[ipin].atom_net_id"),
             resolved |-> <<>>]
       ELSE LET up == IF pb_route[driver].atom_net_id = INVALID_NET
                      THEN load_atom_index_for_pb_pin(pb_route, driver)
                      ELSE [pb_route |-> pb_route, error |-> NoError, resolved |-> <<>>]
            IN IF Failed(up.error) THEN up
               ELSE [pb_route |->
                        [up.pb_route EXCEPT
                            ![ipin].atom_net_id = up.pb_route[driver].atom_net_id],
                     error |-> NoError,
                     resolved |-> Append(up.resolved, ipin)]

RECURSIVE load_interal_to_block_net_nums_from(_, _)
\* The loop that fills every entry with a prev_pb_pin_id, whether or not it
\* has a net id already.
load_interal_to_block_net_nums_from_every_prev(pb_route, i) ==
    IF i >= total_pb_pins THEN [pb_route |-> pb_route, error |-> NoError, resolved |-> <<>>]
    ELSE IF pb_route[i].prev_pb_pin_id # OPEN
    THEN LET filled == load_atom_index_for_pb_pin(pb_route, i)
             rest == load_interal_to_block_net_nums_from(filled.pb_route, i + 1)
         IN IF Failed(filled.error) THEN filled
            ELSE [pb_route |-> rest.pb_route, error |-> rest.error,
                  resolved |-> filled.resolved \o rest.resolved]
    ELSE load_interal_to_block_net_nums_from(pb_route, i + 1)

load_interal_to_block_net_nums_from(pb_route, i) ==
    IF i >= total_pb_pins THEN [pb_route |-> pb_route, error |-> NoError, resolved |-> <<>>]
    ELSE IF pb_route[i].prev_pb_pin_id # OPEN /\ pb_route[i].atom_net_id = INVALID_NET
    THEN LET filled == load_atom_index_for_pb_pin(pb_route, i)
             rest == load_interal_to_block_net_nums_from(filled.pb_route, i + 1)
         IN IF Failed(filled.error) THEN filled
            ELSE [pb_route |-> rest.pb_route, error |-> rest.error,
                  resolved |-> filled.resolved \o rest.resolved]
    ELSE load_interal_to_block_net_nums_from(pb_route, i + 1)

load_interal_to_block_net_nums(pb_route) == load_interal_to_block_net_nums_from(pb_route, 0)

(***************************************************************************)
(* State.                                                                  *)
(***************************************************************************)
VARIABLES
    netlist,       \* the atom netlist
    pc,            \* "idle", "absorb", "sweep_iterative", "sweep_return" or "aborted"
    buffer_luts,   \* absorb_buffer_luts: the identified buffers not yet handled
    flags,         \* sweep_iterative: its four flags
    swept,         \* sweep_iterative: the dangling_*_swept counters
    pass,          \* sweep_iterative: the pass_*_swept counters
    ret,           \* the value returned by the last sweep
    failure,       \* "none", or the failed check that stopped the program
    last_op,       \* the public operation that completed last
    entry,         \* history: the netlist when sweep_iterative was entered
    removed,       \* history: sum of the counts the sweeps of this call returned
    passes,        \* history: number of passes of this call
    second,        \* history: this call directly follows a call with the same flags
    last_buffer    \* history: the buffer remove_buffer_lut handled last, the netlist before

\* read_netlist (the packed-netlist ingest).
VARIABLES
    blist,          \* the clustered blocks read so far: type, pb tree, pb_route, nets
    stage,          \* read_netlist: the statement it is at, "none" outside of it
    depth,          \* processPb: depth of the pb being populated (0 is the cluster's pb)
    step,           \* processPb: "inputs", "outputs", "clocks", "primitive" or "children"
    children_read,  \* processPb: child elements read so far under the pb of each depth
    num_primitives, \* read_netlist: leaf pbs bound so far
    atom_pb,        \* g_atom_map: the cluster whose leaf pb each atom block is bound to
    ext_nlist,      \* the external nets load_external_nets_and_cb built
    error,          \* the vpr_throw or failed VTR_ASSERT that ended read_netlist
    reported,       \* the leaf pbs mark_constant_generators reported, by cluster
    last_child,     \* history: the child element processPb has just read and what it did
    last_port,      \* history: the port entry processPorts has just read
    document,       \* the family the document read is of, "none" outside of read_netlist
    circuit_clocks  \* the names of the clocks section of the document

\* The truth-table utilities and is_buffer_lut, called on their own.
VARIABLES
    call,           \* the function called and its arguments, fn "none" outside of a call
    returned,       \* the call has returned
    outcome         \* what the call returned, or the check it failed

sweep_vars ==
    <<netlist, pc, buffer_luts, flags, swept, pass, ret, failure, last_op,
      entry, removed, passes, second, last_buffer>>

read_vars ==
    <<blist, stage, depth, step, children_read, num_primitives, atom_pb, ext_nlist,
      error, reported, last_child, last_port, document, circuit_clocks>>

util_vars == <<call, returned, outcome>>

vars == <<sweep_vars, read_vars, util_vars>>

NoCall == [fn |-> "none"]

NoOutcome == [value |-> <<>>, failure |-> "none"]

NotComputing ==
    /\ call = NoCall
    /\ returned = FALSE
    /\ outcome = NoOutcome

(***************************************************************************)
(* read_netlist: the state outside of it, and the state after the header   *)
(* of the document has been read and the atom to pb map has been reset.    *)
(***************************************************************************)
NoPb == [pb_graph_node |-> FALSE, name |-> NULL, parent_pb |-> FALSE]

NoChild ==
    [depth |-> 0, slot |-> 0, name |-> NULL, outputs |-> "absent", occupant |-> "none",
     did |-> "none"]

NoPort == [depth |-> 0, section |-> "none", num_tokens |-> 0]

NewBlock(type) ==
    [type |-> type,
     child |-> [d \in 1..LeafDepth |-> NoPb],
     pb_route |-> alloc_pb_route,
     nets |-> <<>>]

NotReading ==
    /\ blist = <<>>
    /\ stage = "none"
    /\ depth = 0
    /\ step = "none"
    /\ children_read = [d \in 0..(LeafDepth - 1) |-> 0]
    /\ num_primitives = 0
    /\ atom_pb = <<>>
    /\ ext_nlist = <<>>
    /\ error = NoError
    /\ reported = {}
    /\ last_child = NoChild
    /\ last_port = NoPort
    /\ circuit_clocks = <<>>
    /\ document = "none"
    /\ NotComputing

\* The documents read: a "single" cluster of any content, against the atom
\* netlist of lut alone, or "plain" clusters against the atom netlist of pi
\* and lut: in these every pb is used, the internal input and clock
\* pins are open and the internal output pins are routed.
ReadInit ==
    /\ document \in {"single", "plain"}
    /\ netlist = PackedNetlist(IF document = "single" THEN {"lut"} ELSE {"pi", "lut"})
    /\ pc = "idle"
    /\ buffer_luts = <<>>
    /\ flags = NoFlags
    /\ swept = ZeroCounts
    /\ pass = ZeroCounts
    /\ ret = 0
    /\ failure = "none"
    /\ last_op = "none"
    /\ entry = NoNetlist
    /\ removed = 0
    /\ passes = 0
    /\ second = FALSE
    /\ last_buffer = NoBuffer
    /\ blist = <<>>
    /\ stage = "blocks"
    /\ depth = 0
    /\ step = "none"
    /\ children_read = [d \in 0..(LeafDepth - 1) |-> 0]
    /\ num_primitives = 0
    /\ atom_pb = [blk \in netlist.block_ids |-> NULL_PB]
    /\ ext_nlist = <<>>
    /\ error = NoError
    /\ reported = {}
    /\ last_child = NoChild
    /\ last_port = NoPort
    /\ circuit_clocks = <<>>
    /\ NotComputing

\* The cluster being read and its index in blist.
index == Len(blist) - 1

cb == blist[Len(blist)]

\* vpr_throw, a failed VTR_ASSERT: read_netlist ends.
Fail(e) ==
    /\ error' = e
    /\ stage' = "failed"

(***************************************************************************)
(* The document, read as the program reads it: the tokens of a port entry  *)
(* and the next child element are drawn when the program reaches them.     *)
(***************************************************************************)
NetNames == {"pi", "lut"}

Tokens(d, section, pin) ==
    IF names_net(d, section)
    THEN {<<"open">>} \cup {<<"net", n>> : n \in NetNames}
    ELSE IF document = "single"
    THEN {<<"open">>} \cup {<<"pin", p, "direct">> : p \in upstream_pins(pin)}
    ELSE IF section = "outputs"
    THEN {<<"pin", p, "direct">> : p \in upstream_pins(pin)}
    ELSE {<<"open">>}

\* The port entries of a section: one token for the pin, or one token too
\* many, or none.
PortEntries(d, section) ==
    {<<t>> : t \in Tokens(d, section, port_pins(d, section)[1])}
        \cup (IF document = "single"
              THEN {<<t, <<"open">> >> : t \in Tokens(d, section, port_pins(d, section)[1])}
                    \cup {<<>>}
              ELSE {})

ChildNames(d) == IF d = LeafDepth THEN {"pi", "lut", "ghost"} ELSE {"b"}

\* The child elements: instance slot, name, and what there is of an outputs
\* section ("absent", "empty": without port entry, "port": with a port entry).
ChildElements(d) ==
    {[slot |-> 0, name |-> n, outputs |-> "port"] : n \in ChildNames(d)}
        \cup (IF document = "single"
              THEN {[slot |-> num_pb, name |-> n, outputs |-> "port"] : n \in ChildNames(d)}
                    \cup {[slot |-> 0, name |-> "open", outputs |-> o] :
                            o \in {"absent", "empty", "port"}}
              ELSE {})

next_step(d, section) ==
    IF section = "inputs" THEN "outputs"
    ELSE IF section = "outputs" THEN "clocks"
    ELSE IF num_modes(d) = 0 THEN "primitive" ELSE "children"

(***************************************************************************)
(* processComplexBlock and processPb, step by step.                        *)
(***************************************************************************)
ProcessComplexBlock ==
    /\ stage = "blocks"
    /\ Len(blist) < (IF document = "single" THEN 1 ELSE MaxClusters)
    /\ \E type \in TypeNames : blist' = Append(blist, NewBlock(type))
    /\ stage' = "processPb"
    /\ depth' = 0
    /\ step' = "inputs"
    /\ children_read' = [d \in 0..(LeafDepth - 1) |-> 0]
    /\ last_child' = NoChild
    /\ last_port' = NoPort
    /\ UNCHANGED <<num_primitives, atom_pb, ext_nlist, error, reported>>
    /\ UNCHANGED <<sweep_vars, util_vars, document, circuit_clocks>>

ProcessPorts ==
    /\ stage = "processPb"
    /\ step \in {"inputs", "outputs", "clocks"}
    /\ \/ /\ port_pins(depth, step) = <<>>
          /\ step' = next_step(depth, step)
          /\ last_port' = NoPort
          /\ UNCHANGED <<blist, stage, error>>
       \/ /\ port_pins(depth, step) # <<>>
          /\ \E pins \in PortEntries(depth, step) :
                LET done == processPorts(netlist, cb.pb_route, depth, step, pins)
                IN /\ blist' = [blist EXCEPT ![Len(blist)].pb_route = done.pb_route]
                   /\ error' = done.error
                   /\ stage' = IF Failed(done.error) THEN "failed" ELSE stage
                   /\ step' = IF Failed(done.error) THEN step ELSE next_step(depth, step)
                   /\ last_port' = [depth |-> depth, section |-> step,
                                    num_tokens |-> Len(pins)]
    /\ last_child' = NoChild
    /\ UNCHANGED <<depth, children_read, num_primitives, atom_pb, ext_nlist, reported>>
    /\ UNCHANGED <<sweep_vars, util_vars, document, circuit_clocks>>

\* The primitive: find_block on a null name is undefined behaviour, a
\* std::logic_error or a crash.
BindPrimitive ==
    /\ stage = "processPb"
    /\ step = "primitive"
    /\ LET name == cb.child[depth].name
           blk_id == find_block(netlist, name)
       IN IF name = NULL
          THEN /\ \E what \in {"std::logic_error", "crash"} :
                    Fail([kind |-> "undefined", what |-> what, arg |-> ""])
               /\ UNCHANGED <<atom_pb, num_primitives, depth, step>>
          ELSE IF blk_id = "INVALID"
          THEN /\ Fail(Throw("unknown primitive", name))
               /\ UNCHANGED <<atom_pb, num_primitives, depth, step>>
          ELSE /\ atom_pb' = [atom_pb EXCEPT ![blk_id] = <<index>>]
               /\ num_primitives' = num_primitives + 1
               /\ depth' = depth - 1
               /\ step' = "children"
               /\ UNCHANGED <<stage, error>>
    /\ last_child' = NoChild
    /\ last_port' = NoPort
    /\ UNCHANGED <<blist, children_read, ext_nlist, reported>>
    /\ UNCHANGED <<sweep_vars, util_vars, document, circuit_clocks>>

\* The test of the slot that takes it for used only when its pb has a name.
slot_is_used_if_named(blk, c) == blk.child[c].pb_graph_node /\ blk.child[c].name # NULL

\* The slot of the child at depth c already holds a pb_graph_node.
slot_is_used(blk, c) == blk.child[c].pb_graph_node

\* The open child element handled without the check that its outputs section
\* holds a port entry.
open_block_outcome_without_port_check(outputs) ==
    IF outputs = "absent" THEN "skipped" ELSE "traversed"

\* What processPb does with a child element named open: without an outputs
\* section it skips it; with one, get_first_child requires a port entry in
\* it (an XmlError without), and the element is traversed.
open_block_outcome(outputs) ==
    IF outputs = "absent" THEN "skipped"
    ELSE IF outputs = "empty" THEN "rejected"
    ELSE "traversed"

\* One child element of the pb at this depth.
ReadChild ==
    /\ stage = "processPb"
    /\ step = "children"
    /\ children_read[depth] < MaxChildElements
    /\ \E child \in ChildElements(depth + 1) :
        LET c == depth + 1
            seen(did) ==
                [depth |-> c, slot |-> child.slot, name |-> child.name,
                 outputs |-> child.outputs,
                 occupant |-> IF children_read[depth] = 0 THEN "none"
                              ELSE IF cb.child[c].name = NULL THEN "open" ELSE "named",
                 did |-> did]
            occupied == [blist EXCEPT ![Len(blist)].child[c].pb_graph_node = TRUE]
            entered(name) ==
                [occupied EXCEPT ![Len(blist)].child[c].name = name,
                                 ![Len(blist)].child[c].parent_pb = TRUE]
            descend == /\ depth' = c
                       /\ step' = "inputs"
                       /\ children_read' =
                            [d \in 0..(LeafDepth - 1) |->
                                IF d = depth THEN children_read[d] + 1
                                ELSE IF d = c THEN 0 ELSE children_read[d]]
                       /\ UNCHANGED <<stage, error>>
            stay == /\ children_read' = [children_read EXCEPT ![depth] = @ + 1]
                    /\ UNCHANGED <<depth, step>>
        IN IF child.slot >= num_pb
           THEN /\ Fail(Throw("Instance number exceeds # of pb available", child.name))
                /\ last_child' = seen("rejected")
                /\ stay
                /\ UNCHANGED blist
           ELSE IF slot_is_used(cb, c)
           THEN /\ Fail(Throw("node is used by two different blocks", cb.child[c].name))
                /\ last_child' = seen("rejected")
                /\ stay
                /\ UNCHANGED blist
           ELSE IF child.name # "open"
           THEN /\ blist' = entered(child.name)
                /\ last_child' = seen("traversed")
                /\ descend
           ELSE IF open_block_outcome(child.outputs) = "skipped"
           THEN /\ blist' = occupied
                /\ last_child' = seen("skipped")
                /\ stay
                /\ UNCHANGED <<stage, error>>
           ELSE IF open_block_outcome(child.outputs) = "rejected"
           THEN /\ blist' = occupied
                /\ Fail(Throw("XmlError: missing required child", "port"))
                /\ last_child' = seen("rejected")
                /\ stay
           ELSE /\ blist' = entered(NULL)
                /\ last_child' = seen("traversed")
                /\ descend
    /\ last_port' = NoPort
    /\ UNCHANGED <<num_primitives, atom_pb, ext_nlist, reported>>
    /\ UNCHANGED <<sweep_vars, util_vars, document, circuit_clocks>>

\* No child element is left: processPb returns to the pb above.
ProcessPbReturn ==
    /\ stage = "processPb"
    /\ step = "children"
    /\ depth > 0
    /\ depth' = depth - 1
    /\ last_child' = NoChild
    /\ last_port' = NoPort
    /\ UNCHANGED <<blist, stage, step, children_read, num_primitives, atom_pb, ext_nlist,
                   error, reported>>
    /\ UNCHANGED <<sweep_vars, util_vars, document, circuit_clocks>>

\* processPb has returned to processComplexBlock: nets is set to OPEN and
\* the net ids of the cluster are filled.
LoadInternalToBlockNetNums ==
    /\ stage = "processPb"
    /\ step = "children"
    /\ depth = 0
    /\ LET filled == load_interal_to_block_net_nums(cb.pb_route)
       IN /\ blist' = [blist EXCEPT
                ![Len(blist)].pb_route = filled.pb_route,
                ![Len(blist)].nets = [j \in 0..(num_pins - 1) |-> OPEN]]
          /\ error' = filled.error
          /\ stage' = IF Failed(filled.error) THEN "failed" ELSE "blocks"
    /\ step' = "none"
    /\ last_child' = NoChild
    /\ last_port' = NoPort
    /\ UNCHANGED <<depth, children_read, num_primitives, atom_pb, ext_nlist, reported>>
    /\ UNCHANGED <<sweep_vars, util_vars, document, circuit_clocks>>


Init ==
    /\ netlist \in InitialNetlists
    /\ pc = "idle"
    /\ buffer_luts = <<>>
    /\ flags = NoFlags
    /\ swept = ZeroCounts
    /\ pass = ZeroCounts
    /\ ret = 0
    /\ failure = "none"
    /\ last_op = "none"
    /\ entry = NoNetlist
    /\ removed = 0
    /\ passes = 0
    /\ second = FALSE
    /\ last_buffer = NoBuffer
    /\ NotReading

\* What a public operation other than sweep_iterative leaves of the history.
ResetHistory ==
    /\ flags' = NoFlags
    /\ swept' = ZeroCounts
    /\ pass' = ZeroCounts
    /\ entry' = NoNetlist
    /\ removed' = 0
    /\ passes' = 0
    /\ second' = FALSE

(***************************************************************************)
(* absorb_buffer_luts.                                                     *)
(***************************************************************************)
AbsorbBufferLutsBegin ==
    /\ pc = "idle"
    /\ pc' = "absorb"
    /\ buffer_luts' = identify_buffer_luts(netlist)
    /\ last_buffer' = NoBuffer
    /\ last_op' = "none"
    /\ ret' = 0
    /\ ResetHistory
    /\ UNCHANGED <<netlist, failure>>
    /\ UNCHANGED <<read_vars, util_vars>>

RemoveBufferLut ==
    /\ pc = "absorb"
    /\ buffer_luts # <<>>
    /\ LET blk == Head(buffer_luts)
           fails == remove_buffer_lut_failure(netlist, blk)
       IN /\ failure' = fails
          /\ pc' = IF fails = "none" THEN "absorb" ELSE "aborted"
          /\ netlist' = IF fails = "none" THEN remove_buffer_lut(netlist, blk) ELSE netlist
          /\ last_buffer' = [blk |-> blk, before |-> netlist]
    /\ buffer_luts' = Tail(buffer_luts)
    /\ UNCHANGED <<flags, swept, pass, ret, last_op, entry, removed, passes, second>>
    /\ UNCHANGED <<read_vars, util_vars>>

AbsorbBufferLutsEnd ==
    /\ pc = "absorb"
    /\ buffer_luts = <<>>
    /\ pc' = "idle"
    /\ last_op' = "absorb_buffer_luts"
    /\ last_buffer' = NoBuffer
    /\ UNCHANGED <<netlist, buffer_luts, flags, swept, pass, ret, failure,
                   entry, removed, passes, second>>
    /\ UNCHANGED <<read_vars, util_vars>>

(***************************************************************************)
(* The sweeps called on their own.                                         *)
(***************************************************************************)
Sweep(result, name) ==
    /\ netlist' = result.netlist
    /\ ret' = result.count
    /\ last_op' = name
    /\ ResetHistory
    /\ UNCHANGED <<pc, buffer_luts, failure, last_buffer>>
    /\ UNCHANGED <<read_vars, util_vars>>

SweepInputs ==
    /\ pc = "idle"
    /\ \E order \in Perms(inputs_to_remove(netlist)) :
          Sweep(sweep_inputs(netlist, order), "sweep_inputs")

SweepOutputs ==
    /\ pc = "idle"
    /\ \E order \in Perms(outputs_to_remove(netlist)) :
          Sweep(sweep_outputs(netlist, order), "sweep_outputs")

SweepBlocks ==
    /\ pc = "idle"
    /\ \E order \in Perms(blocks_to_remove(netlist)) :
          Sweep(sweep_blocks(netlist, order), "sweep_blocks")

SweepNets ==
    /\ pc = "idle"
    /\ \E order \in Perms(nets_to_remove(netlist)) :
          Sweep(sweep_nets(netlist, order), "sweep_nets")

SweepConstantPrimaryOutputs ==
    /\ pc = "idle"
    /\ Sweep(sweep_constant_primary_outputs(netlist), "sweep_constant_primary_outputs")

(***************************************************************************)
(* sweep_iterative.                                                        *)
(***************************************************************************)
SweepIterativeBegin ==
    /\ pc = "idle"
    /\ \E f \in Flags :
          /\ second' = (last_op = "sweep_iterative" /\ flags = f)
          /\ flags' = f
    /\ pc' = "sweep_iterative"
    /\ swept' = ZeroCounts
    /\ pass' = ZeroCounts
    /\ entry' = netlist
    /\ removed' = 0
    /\ passes' = 0
    /\ last_op' = "none"
    /\ ret' = 0
    /\ UNCHANGED <<netlist, buffer_luts, failure, last_buffer>>
    /\ UNCHANGED <<read_vars, util_vars>>

\* One execution of the body of the do-while loop and of its condition.
SweepIterativePass ==
    /\ pc = "sweep_iterative"
    /\ \E oi \in IF flags.should_sweep_ios THEN Perms(inputs_to_remove(netlist)) ELSE {<<>>} :
        LET r1 == IF flags.should_sweep_ios THEN sweep_inputs(netlist, oi) ELSE Unswept(netlist)
        IN \E oo \in IF flags.should_sweep_ios
                     THEN Perms(outputs_to_remove(r1.netlist)) ELSE {<<>>} :
        LET r2 == IF flags.should_sweep_ios
                  THEN sweep_outputs(r1.netlist, oo) ELSE Unswept(r1.netlist)
        IN \E ob \in IF flags.should_sweep_blocks
                     THEN Perms(blocks_to_remove(r2.netlist)) ELSE {<<>>} :
        LET r3 == IF flags.should_sweep_blocks
                  THEN sweep_blocks(r2.netlist, ob) ELSE Unswept(r2.netlist)
        IN \E on \in IF flags.should_sweep_nets
                     THEN Perms(nets_to_remove(r3.netlist)) ELSE {<<>>} :
        LET r4 == IF flags.should_sweep_nets
                  THEN sweep_nets(r3.netlist, on) ELSE Unswept(r3.netlist)
            r5 == IF flags.should_sweep_constant_primary_outputs
                  THEN sweep_constant_primary_outputs(r4.netlist) ELSE Unswept(r4.netlist)
            this == [nets |-> r4.count, blocks |-> r3.count, inputs |-> r1.count,
                     outputs |-> r2.count, constant_outputs |-> r5.count]
        IN /\ netlist' = r5.netlist
           /\ pass' = this
           /\ swept' = accumulate(swept, this)
           /\ removed' = removed + PassTotal(this)
           /\ pc' = IF keep_sweeping(this) THEN "sweep_iterative" ELSE "sweep_return"
    /\ passes' = passes + 1
    /\ UNCHANGED <<buffer_luts, flags, ret, failure, last_op, entry, second, last_buffer>>
    /\ UNCHANGED <<read_vars, util_vars>>

SweepIterativeReturn ==
    /\ pc = "sweep_return"
    /\ pc' = "idle"
    /\ ret' = sweep_iterative_result(swept)
    /\ last_op' = "sweep_iterative"
    /\ UNCHANGED <<netlist, buffer_luts, flags, swept, pass, failure,
                   entry, removed, passes, second, last_buffer>>
    /\ UNCHANGED <<read_vars, util_vars>>

Next ==
    \/ AbsorbBufferLutsBegin
    \/ RemoveBufferLut
    \/ AbsorbBufferLutsEnd
    \/ SweepInputs
    \/ SweepOutputs
    \/ SweepBlocks
    \/ SweepNets
    \/ SweepConstantPrimaryOutputs
    \/ SweepIterativeBegin
    \/ SweepIterativePass
    \/ SweepIterativeReturn

Spec == Init /\ [][Next]_vars

(***************************************************************************)
(* Reference computations for the claims about sweep_iterative: the passes *)
(* with every collected set removed in ascending id order.                 *)
(***************************************************************************)
RECURSIVE AscendingIds(_)
AscendingIds(S) ==
    IF S = {} THEN <<>>
    ELSE LET m == CHOOSE x \in S : \A y \in S : x <= y
         IN <<m>> \o AscendingIds(S \ {m})

AscendingPass(nl, f) ==
    LET r1 == IF f.should_sweep_ios
              THEN sweep_inputs(nl, InBlockOrder(inputs_to_remove(nl))) ELSE Unswept(nl)
        r2 == IF f.should_sweep_ios
              THEN sweep_outputs(r1.netlist, InBlockOrder(outputs_to_remove(r1.netlist)))
              ELSE Unswept(r1.netlist)
        r3 == IF f.should_sweep_blocks
              THEN sweep_blocks(r2.netlist, InBlockOrder(blocks_to_remove(r2.netlist)))
              ELSE Unswept(r2.netlist)
        r4 == IF f.should_sweep_nets
              THEN sweep_nets(r3.netlist, AscendingIds(nets_to_remove(r3.netlist)))
              ELSE Unswept(r3.netlist)
        r5 == IF f.should_sweep_constant_primary_outputs
              THEN sweep_constant_primary_outputs(r4.netlist) ELSE Unswept(r4.netlist)
    IN r5.netlist

RECURSIVE AscendingPasses(_, _, _)
AscendingPasses(nl, f, n) ==
    IF n = 0 THEN nl ELSE AscendingPasses(AscendingPass(nl, f), f, n - 1)

\* sweep_iterative has returned and nothing was called since.
Returned == pc = "idle" /\ last_op = "sweep_iterative"

\* Elements that an enabled sweep of sweep_iterative would remove from nl.
Removable(nl, f) ==
    (IF f.should_sweep_ios THEN inputs_to_remove(nl) \cup outputs_to_remove(nl) ELSE {})
    \cup (IF f.should_sweep_blocks THEN blocks_to_remove(nl) ELSE {})
    \cup (IF f.should_sweep_nets THEN nets_to_remove(nl) ELSE {})
    \cup (IF f.should_sweep_constant_primary_outputs
          THEN {b \in nl.block_ids : block_type(b) = "OUTPAD" /\ all_inputs_are_const(nl, b)}
          ELSE {})

(***************************************************************************)
(* Claims.                                                                 *)
(***************************************************************************)
\* C1: the value returned by sweep_iterative equals the number of elements
\* removed (the sum over all passes of the counts the sweeps returned, which
\* is the number of blocks and nets that left the netlist), and the last pass
\* removed nothing.
C1_ReturnCountsRemovals ==
    Returned =>
        /\ ret = removed
        /\ ret = Elements(entry) - Elements(netlist)
        /\ PassTotal(pass) = 0

\* C2: a call of sweep_iterative directly after a call with the same flags
\* removes no block and no net, returns 0 and leaves the netlist as the first
\* call left it.
C2_SweepIterativeIdempotent ==
    (Returned /\ second) =>
        /\ ret = 0
        /\ removed = 0
        /\ passes = 1
        /\ netlist = entry

\* C2 witness: a second call has returned on a netlist from which the first
\* call had removed blocks and nets.
C2_Witness ==
    /\ Returned
    /\ second
    /\ Cardinality(netlist.block_ids) < Cardinality(Blocks) - 1
    /\ Cardinality(netlist.net_ids) < Cardinality(DriverBlocks)

\* C3: a pass of sweep_iterative is followed by another pass exactly when it
\* removed at least one element, the loop is left after the first pass that
\* removed nothing, and so there are never more passes than elements at entry
\* plus one.
C3_SweepIterativeTerminates ==
    [][pc = "sweep_iterative" =>
        /\ pc' \in {"sweep_iterative", "sweep_return"}
        /\ (pc' = "sweep_iterative") <=> (Elements(netlist') < Elements(netlist))
        /\ (pc' = "sweep_return") <=> (netlist' = netlist)
        /\ (pc' = "sweep_return") => Removable(netlist', flags) = {}
        /\ passes' <= Elements(entry) + 1]_vars

\* C3 witness: the loop is left after four passes.
C3_Witness == pc = "sweep_return" /\ passes = 4

\* C4: whatever the order in which the elements collected by each sweep are
\* removed, every pass of sweep_iterative, and so the fixpoint it returns,
\* gives the live blocks, live nets and pin/net bindings that removal in
\* ascending id order gives.
C4_FixpointOrderIndependent ==
    (pc \in {"sweep_iterative", "sweep_return"} \/ Returned) =>
        /\ netlist = AscendingPasses(entry, flags, passes)
        /\ (pc # "sweep_iterative" => AscendingPass(netlist, flags) = netlist)

\* C4 witness: sweep_iterative returned after a pass whose sweep had two
\* blocks to remove, so two orders to remove them in.
C4_Witness ==
    /\ Returned
    /\ passes >= 3
    /\ \E k \in 0..passes : Cardinality(blocks_to_remove(AscendingPasses(entry, flags, k))) >= 2

(***************************************************************************)
(* The call of remove_buffer_lut that has just returned, as the claims     *)
(* speak of it: the buffer B, its pins, its nets N_in and N_out and the    *)
(* driver D of N_in in the netlist before the call.                        *)
(***************************************************************************)
Handled == pc = "absorb" /\ last_buffer.blk # "none" /\ failure = "none"

Before == last_buffer.before

B == last_buffer.blk

P_in == <<B, "in">>

P_out == <<B, "out">>

N_in == Before.pin_nets[P_in]

N_out == Before.pin_nets[P_out]

D == Before.net_driver[N_in]

SinksOf(nl, net) == {nl.net_sinks[net][i] : i \in 1..Len(nl.net_sinks[net])}

OnOutpad(pins) == \E p \in pins : block_type(p[1]) = "OUTPAD"

DriverOnInpad == block_type(D[1]) = "INPAD"

Absorbed == B \notin netlist.block_ids

\* The net created by the call, if any.
Merged == Before.next_net_id

MergedNamed(name) ==
    /\ Absorbed
    /\ Merged \in netlist.net_ids
    /\ netlist.net_names[Merged] = name

\* C5 as stated: with the driver of N_in on an INPAD and no sink of N_out on
\* an OUTPAD the buffer is absorbed and the merged net has the name of N_in,
\* whatever the other sinks of N_in; with the driver of N_in not on an INPAD
\* the buffer is absorbed and the merged net has the name of N_out.
C5_NameRuleAsStated ==
    Handled =>
        /\ (DriverOnInpad /\ ~OnOutpad(SinksOf(Before, N_out)))
               => MergedNamed(Before.net_names[N_in])
        /\ ~DriverOnInpad => MergedNamed(Before.net_names[N_out])

\* C5 amended: with the driver of N_in on an INPAD and no OUTPAD among the
\* sinks of N_out nor among the sinks of N_in other than the buffer's input
\* pin, the buffer is absorbed and the merged net has the name of N_in; with
\* the driver of N_in not on an INPAD the buffer is absorbed and the merged
\* net has the name of N_out.
C5_NameRule ==
    Handled =>
        /\ (/\ DriverOnInpad
            /\ ~OnOutpad(SinksOf(Before, N_out))
            /\ ~OnOutpad(SinksOf(Before, N_in) \ {P_in}))
               => MergedNamed(Before.net_names[N_in])
        /\ ~DriverOnInpad => MergedNamed(Before.net_names[N_out])

\* C5 witness: a buffer driven by the primary input, whose input net has a
\* second sink, has been absorbed under the name of its input net.
C5_Witness ==
    /\ Handled
    /\ DriverOnInpad
    /\ Len(Before.net_sinks[N_in]) >= 2
    /\ MergedNamed(Before.net_names[N_in])

\* C6: when the input net of the buffer is driven by an INPAD pin and its
\* output net has a sink on an OUTPAD, remove_buffer_lut leaves the netlist
\* as it was: nothing removed, nothing renamed, no net created.
C6_BufferBetweenPadsKept ==
    (Handled /\ DriverOnInpad /\ OnOutpad(SinksOf(Before, N_out))) => netlist = Before

\* C6 witness: remove_buffer_lut has returned for a buffer between the primary
\* input and the primary output.
C6_Witness ==
    /\ Handled
    /\ DriverOnInpad
    /\ OnOutpad(SinksOf(Before, N_out))
    /\ B \in netlist.block_ids

\* C7: after a buffer is absorbed its block and two pins are gone, N_in and
\* N_out are gone, and exactly one net is new: its driver is D, its sinks are
\* the sinks of N_in without P_in together with the sinks of N_out, their
\* number is |sinks(N_in)| + |sinks(N_out)| - 1, and every pin of the new net
\* is bound to it.
C7_AbsorptionMergesNets ==
    (Handled /\ Absorbed) =>
        /\ ~valid_pin_id(netlist, P_in) /\ ~valid_pin_id(netlist, P_out)
        /\ netlist.pin_nets[P_in] = INVALID_NET /\ netlist.pin_nets[P_out] = INVALID_NET
        /\ netlist.block_ids = Before.block_ids \ {B}
        /\ Before.net_ids \ netlist.net_ids = {N_in, N_out}
        /\ netlist.net_ids \ Before.net_ids = {Merged}
        /\ netlist.net_driver[Merged] = D
        /\ SinksOf(netlist, Merged) = (SinksOf(Before, N_in) \ {P_in}) \cup SinksOf(Before, N_out)
        /\ Len(netlist.net_sinks[Merged])
              = Len(Before.net_sinks[N_in]) + Len(Before.net_sinks[N_out]) - 1
        /\ \A p \in {D} \cup SinksOf(netlist, Merged) : netlist.pin_nets[p] = Merged

\* C7 witness: a buffer was absorbed whose input net had another sink and
\* whose output net had a sink, giving a merged net of two sinks.
C7_Witness ==
    /\ Handled
    /\ Absorbed
    /\ Len(Before.net_sinks[N_in]) = 2
    /\ Len(Before.net_sinks[N_out]) = 1
    /\ Len(netlist.net_sinks[Merged]) = 2

(***************************************************************************)
(* Invariants of the store.                                                *)
(***************************************************************************)
PinsOf(nl, net) == ({nl.net_driver[net]} \cup SinksOf(nl, net)) \ {INVALID_PIN}

\* C8: between the operations, a live pin is bound to a live net exactly when
\* it is the driver or one of the sinks of that net, no live pin is bound to a
\* removed net, and no live net lists a pin of a removed block.
C8_PinNetConsistency ==
    /\ \A p \in LivePins(netlist) : \A n \in netlist.net_ids :
          (netlist.pin_nets[p] = n) <=> (p \in PinsOf(netlist, n))
    /\ \A p \in LivePins(netlist) : netlist.pin_nets[p] \in netlist.net_ids \cup {INVALID_NET}
    /\ \A n \in netlist.net_ids : PinsOf(netlist, n) \subseteq LivePins(netlist)

\* C8 witness: between two operations, after a buffer absorption created a
\* net that is still live and sweeps removed further blocks and nets.
C8_Witness ==
    /\ pc = "idle"
    /\ \E n \in netlist.net_ids : n > Cardinality(DriverBlocks) /\ Len(netlist.net_sinks[n]) >= 1
    /\ Cardinality(netlist.block_ids) <= Cardinality(Blocks) - 2
    /\ Cardinality(netlist.net_ids) <= Cardinality(DriverBlocks) - 2

\* C9: every live net has at most one driver, a valid driver is a live pin of
\* type DRIVER and every sink has type SINK; the net created by a buffer
\* absorption has a valid driver of type DRIVER and sinks of type SINK only.
C9_DriverAndSinkTypes ==
    /\ \A n \in netlist.net_ids :
          /\ Cardinality({p \in PinsOf(netlist, n) : pin_type(p) = "DRIVER"}) <= 1
          /\ netlist.net_driver[n] # INVALID_PIN =>
                /\ pin_type(netlist.net_driver[n]) = "DRIVER"
                /\ valid_pin_id(netlist, netlist.net_driver[n])
          /\ \A p \in SinksOf(netlist, n) : pin_type(p) = "SINK"
    /\ (Handled /\ Absorbed) =>
          /\ Merged \in netlist.net_ids
          /\ valid_pin_id(netlist, netlist.net_driver[Merged])
          /\ pin_type(netlist.net_driver[Merged]) = "DRIVER"
          /\ \A p \in SinksOf(netlist, Merged) : pin_type(p) = "SINK"

\* C9 witness: a second buffer of a chain has been absorbed, its input net
\* being the net the first absorption created.
C9_Witness ==
    /\ Handled
    /\ Absorbed
    /\ N_in > Cardinality(DriverBlocks)
    /\ Len(netlist.net_sinks[Merged]) >= 1

block_name(blk) == blk

\* C10: no two live nets share a name and no two live blocks share a name,
\* the add_net of a buffer absorption never fails with DuplicateName, and the
\* id of the merged net differs from N_in, N_out and every id issued before.
C10_NamesUniqueIdsFresh ==
    /\ \A m, n \in netlist.net_ids : m # n => netlist.net_names[m] # netlist.net_names[n]
    /\ \A a, b \in netlist.block_ids : a # b => block_name(a) # block_name(b)
    /\ failure # "DuplicateName"
    /\ (Handled /\ Absorbed) =>
          /\ Merged \in netlist.net_ids
          /\ Merged \notin {N_in, N_out}
          /\ Merged \notin Before.net_ids
          /\ Merged \notin 1..(Before.next_net_id - 1)

\* C10 witness: two absorptions have each created a net, and the two nets
\* created got different ids.
C10_Witness ==
    /\ Handled
    /\ Absorbed
    /\ Merged = Cardinality(DriverBlocks) + 2
    /\ Cardinality(netlist.net_ids) = Cardinality(DriverBlocks) - 2

(***************************************************************************)
(* read_netlist after the loop over the top-level blocks: the checks of    *)
(* the binding of the atoms.                                               *)
(***************************************************************************)
\* The statements of read_netlist in the order extraction of the external
\* nets, then marking of the constant generators.
stage_after_extraction_first(s) ==
    IF s = "blocks" THEN "load_external_nets_and_cb"
    ELSE IF s = "load_external_nets_and_cb" THEN "mark_constant_generators"
    ELSE "done"

\* The statement of read_netlist that follows: after the loop over the
\* blocks and its checks mark_constant_generators, then
\* load_external_nets_and_cb, then the return.
stage_after(s) ==
    IF s = "blocks" THEN "mark_constant_generators"
    ELSE IF s = "mark_constant_generators" THEN "load_external_nets_and_cb"
    ELSE "done"

\* No atom is found unbound, whatever the map.
unbound_atoms_none(nl, map) == <<>>

unbound_atoms(nl, map) ==
    SelectSeq(BlockOrder, LAMBDA blk : blk \in nl.block_ids /\ map[blk] = NULL_PB)

CheckAtoms ==
    /\ stage = "blocks"
    /\ LET unbound == unbound_atoms(netlist, atom_pb)
       IN IF num_primitives # Cardinality(netlist.block_ids)
          THEN Fail(AssertFailed("num_primitives == g_atom_nl.blocks().size()"))
          ELSE IF unbound # <<>>
          THEN Fail(Throw(".net file missing atom", Head(unbound)))
          ELSE /\ stage' = stage_after(stage)
               /\ UNCHANGED error
    /\ last_child' = NoChild
    /\ last_port' = NoPort
    /\ UNCHANGED <<blist, depth, step, children_read, num_primitives, atom_pb, ext_nlist,
                   reported, circuit_clocks>>
    /\ UNCHANGED <<sweep_vars, util_vars, document>>

(***************************************************************************)
(* mark_constant_generators.                                               *)
(***************************************************************************)
blif_model(type, d) ==
    IF d # LeafDepth THEN NULL ELSE IF type = "io" THEN ".input" ELSE ".names"

\* const_gen after the loop over the input pins alone.
const_gen_inputs_only(blk, d) ==
    \A p \in Range(port_pins(d, "inputs")) : blk.pb_route[p].atom_net_id = INVALID_NET

\* const_gen after the loops over the input pins and over the clock pins
\* of the primitive at depth d: no pin of either carries a net.
const_gen(blk, d) ==
    /\ \A p \in Range(port_pins(d, "inputs")) : blk.pb_route[p].atom_net_id = INVALID_NET
    /\ \A p \in Range(port_pins(d, "clocks")) : blk.pb_route[p].atom_net_id = INVALID_NET

\* What the descent from the pb at depth d of a cluster does: whether it
\* reports the primitive as a constant generator, and the assertion it fails.
RECURSIVE mark_constant_generators_rec(_, _, _)
mark_constant_generators_rec(nl, blk, d) ==
    IF blif_model(blk.type, d) = NULL
    THEN IF blk.child[d + 1].name # NULL
         THEN mark_constant_generators_rec(nl, blk, d + 1)
         ELSE [reported |-> FALSE, error |-> NoError]
    ELSE IF pb_type_name(blk.type, d) # "inpad"
    THEN LET driven == {p \in Range(port_pins(d, "outputs")) :
                            blk.pb_route[p].atom_net_id # INVALID_NET}
         IN IF ~const_gen(blk, d) THEN [reported |-> FALSE, error |-> NoError]
            ELSE IF \A p \in driven :
                        pin_is_constant(nl, net_driver(nl, blk.pb_route[p].atom_net_id))
            THEN [reported |-> TRUE, error |-> NoError]
            ELSE [reported |-> TRUE,
                  error |-> AssertFailed("g_atom_nl.pin_is_constant(driver_pin_id)")]
    ELSE [reported |-> FALSE, error |-> NoError]

RECURSIVE mark_constant_generators_from(_, _, _, _)
mark_constant_generators_from(nl, block_list, i, found) ==
    IF i > Len(block_list) THEN [reported |-> found, error |-> NoError]
    ELSE LET marked == mark_constant_generators_rec(nl, block_list[i], 0)
             now == IF marked.reported THEN found \cup {i - 1} ELSE found
         IN IF Failed(marked.error) THEN [reported |-> now, error |-> marked.error]
            ELSE mark_constant_generators_from(nl, block_list, i + 1, now)

mark_constant_generators(nl, block_list) ==
    mark_constant_generators_from(nl, block_list, 1, {})

MarkConstantGenerators ==
    /\ stage = "mark_constant_generators"
    /\ LET marked == mark_constant_generators(netlist, blist)
       IN /\ reported' = marked.reported
          /\ error' = marked.error
          /\ stage' = IF Failed(marked.error) THEN "failed" ELSE stage_after(stage)
    /\ last_child' = NoChild
    /\ last_port' = NoPort
    /\ UNCHANGED <<blist, depth, step, children_read, num_primitives, atom_pb, ext_nlist,
                   circuit_clocks>>
    /\ UNCHANGED <<sweep_vars, util_vars, document>>

(***************************************************************************)
(* load_external_nets_and_cb.                                              *)
(***************************************************************************)
\* The index of the first name of the table, whatever the name looked up.
hash_index_of_first(hash, name) == 1

\* The hash table of net names: the names in the order of their indices,
\* each with the count of its insertions.
hash_index(hash, name) == CHOOSE k \in 1..Len(hash) : hash[k].name = name

add_net_to_hash(hash, name) ==
    IF name = "open" THEN [hash |-> hash, index |-> OPEN]
    ELSE IF \E k \in 1..Len(hash) : hash[k].name = name
    THEN [hash |-> [hash EXCEPT ![hash_index(hash, name)].count = @ + 1],
          index |-> hash_index(hash, name) - 1]
    ELSE [hash |-> Append(hash, [name |-> name, count |-> 1]), index |-> Len(hash)]

alloc_and_init_netlist_from_hash(hash) ==
    [k \in 1..Len(hash) |->
        [name |-> hash[k].name,
         num_sinks |-> hash[k].count - 1,
         node_block |-> [s \in 0..(hash[k].count - 1) |-> OPEN],
         node_block_pin |-> [s \in 0..(hash[k].count - 1) |-> OPEN],
         is_global |-> FALSE]]

\* The first loop, from pin ipin of cluster i on: the external net of each pin.
RECURSIVE load_block_nets(_, _, _, _, _)
load_block_nets(nl, block_list, hash, i, ipin) ==
    IF i > Len(block_list) THEN [block_list |-> block_list, hash |-> hash]
    ELSE IF ipin >= num_pins THEN load_block_nets(nl, block_list, hash, i + 1, 0)
    ELSE LET net_id == block_list[i].pb_route[ipin].atom_net_id
             added == IF net_id # INVALID_NET
                      THEN add_net_to_hash(hash, net_name(nl, net_id))
                      ELSE [hash |-> hash, index |-> OPEN]
         IN load_block_nets(nl, [block_list EXCEPT ![i].nets[ipin] = added.index],
                            added.hash, i, ipin + 1)

\* The comparison of the count of sinks that lets one sink too many pass.
too_many_sinks_off_by_one(count, net) == count > net.num_sinks + 1

\* More terminals of the net are met than it has sinks.
too_many_sinks(count, net) == count > net.num_sinks

\* Slot 0 of the net already holds a driver.
driver_slot_taken(net) == net.node_block[0] # OPEN

\* The second loop, from pin j of cluster i on: each net points back to the
\* blocks.  count[netnum] is kept as the count field of the net.
RECURSIVE load_net_blocks(_, _, _, _)
load_net_blocks(block_list, ext_nets, i, j) ==
    IF i > Len(block_list) THEN [ext_nets |-> ext_nets, error |-> NoError]
    ELSE IF j >= num_pins THEN load_net_blocks(block_list, ext_nets, i + 1, 0)
    ELSE LET netnum == block_list[i].nets[j]
             net == ext_nets[netnum + 1]
             count == net.count + 1
         IN IF netnum = OPEN THEN load_net_blocks(block_list, ext_nets, i, j + 1)
            ELSE IF pin_class_type(j) = "RECEIVER"
            THEN IF too_many_sinks(count, net)
                 THEN [ext_nets |-> [ext_nets EXCEPT ![netnum + 1].count = count],
                       error |-> Throw("net inconsistency", net.name)]
                 ELSE load_net_blocks(block_list,
                        [ext_nets EXCEPT
                            ![netnum + 1].count = count,
                            ![netnum + 1].node_block[count] = i - 1,
                            ![netnum + 1].node_block_pin[count] = j,
                            ![netnum + 1].is_global = is_global_pin(block_list[i].type, j)],
                        i, j + 1)
            ELSE IF driver_slot_taken(net)
            THEN [ext_nets |-> ext_nets,
                  error |-> AssertFailed("(*ext_nets)[netnum].node_block[0] == OPEN")]
            ELSE load_net_blocks(block_list,
                    [ext_nets EXCEPT
                        ![netnum + 1].node_block[0] = i - 1,
                        ![netnum + 1].node_block_pin[0] = j],
                    i, j + 1)

\* The check of the sinks that looks at the last sink of the net only.
sinks_not_matching_last_only(block_list, net) ==
    {j \in {net.num_sinks} \ {0} :
        is_global_pin(block_list[net.node_block[j] + 1].type, net.node_block_pin[j])
            # net.is_global}

\* The check of one net: its sinks against its is_global, then the clocks.
sinks_not_matching(block_list, net) ==
    {j \in 1..net.num_sinks :
        is_global_pin(block_list[net.node_block[j] + 1].type, net.node_block_pin[j])
            # net.is_global}

\* The error check that stops after the first net.
check_global_nets_first_net_only(block_list, ext_nets, clocks, i) ==
    IF ext_nets = <<>> THEN NoError
    ELSE IF sinks_not_matching(block_list, ext_nets[1]) # {}
    THEN Throw("Netlist attempts to connect net to both global and non-global pins",
               ext_nets[1].name)
    ELSE IF \E k \in 1..Len(clocks) : clocks[k] = ext_nets[1].name /\ ~ext_nets[1].is_global
    THEN AssertFailed("(*ext_nets)[i].is_global == true")
    ELSE NoError

RECURSIVE check_global_nets(_, _, _, _)
check_global_nets(block_list, ext_nets, clocks, i) ==
    IF i > Len(ext_nets) THEN NoError
    ELSE IF sinks_not_matching(block_list, ext_nets[i]) # {}
    THEN Throw("Netlist attempts to connect net to both global and non-global pins",
               ext_nets[i].name)
    ELSE IF \E k \in 1..Len(clocks) : clocks[k] = ext_nets[i].name /\ ~ext_nets[i].is_global
    THEN AssertFailed("(*ext_nets)[i].is_global == true")
    ELSE check_global_nets(block_list, ext_nets, clocks, i + 1)

load_external_nets_and_cb(nl, block_list, clocks) ==
    LET named == load_block_nets(nl, block_list, <<>>, 1, 0)
        fresh == alloc_and_init_netlist_from_hash(named.hash)
        counted == [k \in 1..Len(fresh) |->
                        [name |-> fresh[k].name, num_sinks |-> fresh[k].num_sinks,
                         node_block |-> fresh[k].node_block,
                         node_block_pin |-> fresh[k].node_block_pin,
                         is_global |-> fresh[k].is_global, count |-> 0]]
        loaded == load_net_blocks(named.block_list, counted, 1, 0)
    IN [block_list |-> named.block_list,
        ext_nets |-> loaded.ext_nets,
        error |-> IF Failed(loaded.error) THEN loaded.error
                  ELSE check_global_nets(named.block_list, loaded.ext_nets, clocks, 1)]

\* The names of the clocks section of the document, read with the header,
\* are drawn here, where they are used.
ClockLists == {<<>>} \cup {<<n>> : n \in NetNames \cup {"ghost"}}

LoadExternalNetsAndCb ==
    /\ stage = "load_external_nets_and_cb"
    /\ \E clocks \in ClockLists :
        LET loaded == load_external_nets_and_cb(netlist, blist, clocks)
        IN /\ circuit_clocks' = clocks
           /\ blist' = loaded.block_list
           /\ ext_nlist' = loaded.ext_nets
           /\ error' = loaded.error
           /\ stage' = IF Failed(loaded.error) THEN "failed" ELSE stage_after(stage)
    /\ last_child' = NoChild
    /\ last_port' = NoPort
    /\ UNCHANGED <<depth, step, children_read, num_primitives, atom_pb, reported>>
    /\ UNCHANGED <<sweep_vars, util_vars, document>>

ReadNext ==
    \/ ProcessComplexBlock
    \/ ProcessPorts
    \/ BindPrimitive
    \/ ReadChild
    \/ ProcessPbReturn
    \/ LoadInternalToBlockNetNums
    \/ CheckAtoms
    \/ MarkConstantGenerators
    \/ LoadExternalNetsAndCb

ReadSpec == ReadInit /\ [][ReadNext]_vars

(***************************************************************************)
(* The claims about read_netlist.                                          *)
(***************************************************************************)
\* The pins of cluster i whose pb_route entry has a prev_pb_pin_id.
pins_with_prev(i) ==
    {p \in 0..(total_pb_pins - 1) : blist[i].pb_route[p].prev_pb_pin_id # OPEN}

\* C11: after a successful read_netlist, in every cluster every pb_route
\* entry whose prev_pb_pin_id is set has a valid atom_net_id, the one of the
\* entry at prev_pb_pin_id, whatever the length of the chain of upstream pins.
C11_FillFollowsPrev ==
    stage = "done" =>
        \A i \in 1..Len(blist) : \A p \in pins_with_prev(i) :
            LET pb_route == blist[i].pb_route
            IN /\ pb_route[p].atom_net_id # INVALID_NET
               /\ pb_route[p].atom_net_id = pb_route[pb_route[p].prev_pb_pin_id].atom_net_id

\* A successful read with a chain of two upstream pins: the entry at
\* prev_pb_pin_id has a prev_pb_pin_id itself.
C11_Witness ==
    /\ stage = "done"
    /\ \E i \in 1..Len(blist) : \E p \in pins_with_prev(i) :
            blist[i].pb_route[p].prev_pb_pin_id \in pins_with_prev(i)

\* The is_global_pin flag of the cluster pin that slot j of the external net records.
slot_is_global(net, j) ==
    is_global_pin(blist[net.node_block[j] + 1].type, net.node_block_pin[j])

\* C12 (as stated): after load_external_nets_and_cb has completed without
\* error, the is_global_pin flag of every cluster pin an external net records,
\* the driver in slot 0 as well as the sinks in slots 1..num_sinks, equals
\* the is_global of the net.
C12_AllSlotsMatchIsGlobal ==
    stage = "done" =>
        \A k \in 1..Len(ext_nlist) : \A j \in 0..ext_nlist[k].num_sinks :
            slot_is_global(ext_nlist[k], j) = ext_nlist[k].is_global

\* C12: after load_external_nets_and_cb has completed without error, the
\* is_global_pin flag of every sink an external net records in slots
\* 1..num_sinks equals the is_global of the net; the driver in slot 0 is
\* not compared.
C12_SinkSlotsMatchIsGlobal ==
    stage = "done" =>
        \A k \in 1..Len(ext_nlist) : \A j \in 1..ext_nlist[k].num_sinks :
            slot_is_global(ext_nlist[k], j) = ext_nlist[k].is_global

\* A completed load with a global net of two sinks whose driver pin is not global.
C12_Witness ==
    /\ stage = "done"
    /\ \E k \in 1..Len(ext_nlist) :
        /\ ext_nlist[k].num_sinks >= 2
        /\ ext_nlist[k].is_global
        /\ ~slot_is_global(ext_nlist[k], 0)

\* The cluster pins that carry external net number netnum, as <<block, pin>>.
pins_of_ext_net(netnum) ==
    {bp \in (1..Len(blist)) \X (0..(num_pins - 1)) : blist[bp[1]].nets[bp[2]] = netnum}

sink_pins_of_ext_net(netnum) ==
    {bp \in pins_of_ext_net(netnum) : pin_class_type(bp[2]) = "RECEIVER"}

mixed(pins) ==
    \E bp1 \in pins, bp2 \in pins :
        is_global_pin(blist[bp1[1]].type, bp1[2]) # is_global_pin(blist[bp2[1]].type, bp2[2])

mixing_error == "Netlist attempts to connect net to both global and non-global pins"

\* C13 (as stated): when the cluster pins connected to one external net do
\* not all have the same is_global_pin flag, read_netlist never completes.
C13_MixedPinsNeverPass ==
    stage = "done" => \A k \in 1..Len(ext_nlist) : ~mixed(pins_of_ext_net(k - 1))

\* C13: when the sink pins connected to one external net do not all have
\* the same is_global_pin flag, read_netlist never completes; and the error
\* about global and non-global pins names a net whose sink pins are mixed,
\* the first such net.  The driver pin of the net is not compared.
C13_MixedSinksRejected ==
    /\ stage = "done" =>
            \A k \in 1..Len(ext_nlist) : ~mixed(sink_pins_of_ext_net(k - 1))
    /\ (stage = "failed" /\ error.kind = "throw" /\ error.what = mixing_error) =>
            \E k \in 1..Len(ext_nlist) :
                /\ ext_nlist[k].name = error.arg
                /\ mixed(sink_pins_of_ext_net(k - 1))
                /\ \A h \in 1..(k - 1) : ~mixed(sink_pins_of_ext_net(h - 1))

\* The load has failed with the error about global and non-global pins, for
\* the second net, whose sinks were met in the order non-global, global.
C13_Witness ==
    /\ stage = "failed"
    /\ error.kind = "throw"
    /\ error.what = mixing_error
    /\ Len(ext_nlist) >= 2
    /\ error.arg = ext_nlist[2].name
    /\ ext_nlist[2].is_global

driver_pins_of_ext_net(netnum) ==
    {bp \in pins_of_ext_net(netnum) : pin_class_type(bp[2]) = "DRIVER"}

\* The cluster pins that the slots js of the external net record, as <<block, pin>>.
recorded(net, js) == {<<net.node_block[j] + 1, net.node_block_pin[j]>> : j \in js}

\* C14: after load_external_nets_and_cb has completed without error, every
\* external net has exactly one driver pin, recorded in slot 0, and
\* num_sinks sink pins, which fill the slots 1..num_sinks, num_sinks being
\* the number of cluster pins that carry the name of the net minus one; so
\* no net with two driver pins or without driver pin has passed.
C14_OneDriverAllSinks ==
    stage = "done" =>
        \A k \in 1..Len(ext_nlist) :
            LET net == ext_nlist[k]
            IN /\ net.num_sinks = Cardinality(pins_of_ext_net(k - 1)) - 1
               /\ Cardinality(driver_pins_of_ext_net(k - 1)) = 1
               /\ Cardinality(sink_pins_of_ext_net(k - 1)) = net.num_sinks
               /\ \A j \in 0..net.num_sinks :
                    net.node_block[j] # OPEN /\ net.node_block_pin[j] # OPEN
               /\ recorded(net, {0}) = driver_pins_of_ext_net(k - 1)
               /\ recorded(net, 1..net.num_sinks) = sink_pins_of_ext_net(k - 1)

\* A completed load with two external nets of two sinks each.
C14_Witness ==
    /\ stage = "done"
    /\ Len(ext_nlist) = 2
    /\ \A k \in 1..Len(ext_nlist) : ext_nlist[k].num_sinks = 2

\* C15: a child block element that names a slot of its parent that an
\* earlier child element of the same parent has taken, were it a named block
\* or an open one, makes read_netlist fail; so does a slot index greater
\* than or equal to num_pb of the child type.
C15_DuplicateOrOutOfRangeSlotRejected ==
    last_child.did # "none" =>
        /\ last_child.slot >= num_pb =>
                /\ last_child.did = "rejected"
                /\ stage = "failed"
                /\ error = Throw("Instance number exceeds # of pb available", last_child.name)
        /\ (last_child.slot < num_pb /\ last_child.occupant # "none") =>
                /\ last_child.did = "rejected"
                /\ stage = "failed"
                /\ error.kind = "throw"
                /\ error.what = "node is used by two different blocks"

\* A child element has been rejected for a slot that an open block took before.
C15_Witness ==
    /\ last_child.did = "rejected"
    /\ last_child.slot < num_pb
    /\ last_child.occupant = "open"
    /\ error.what = "node is used by two different blocks"

\* C16: a port entry of an inputs, outputs or clocks section whose number of
\* tokens differs from the number of pins of the port makes read_netlist
\* fail with an error, and no pb_route entry of the pins of that port has
\* been written.
C16_TokenCountMismatchRejected ==
    (last_port.section # "none"
        /\ last_port.num_tokens # Len(port_pins(last_port.depth, last_port.section))) =>
            /\ stage = "failed"
            /\ error = Throw("Incorrect # pins", last_port.section)
            /\ \A p \in Range(port_pins(last_port.depth, last_port.section)) :
                    cb.pb_route[p] = NoRoute

\* A port entry of the outputs of a primitive with one token too many has
\* been rejected.
C16_Witness ==
    /\ stage = "failed"
    /\ last_port.section = "outputs"
    /\ last_port.depth = LeafDepth
    /\ last_port.num_tokens = Len(port_pins(last_port.depth, last_port.section)) + 1
    /\ error.what = "Incorrect # pins"

\* read_netlist has come to its check of the atoms: it has passed it, or it
\* has failed at it.
atoms_checked ==
    \/ stage \in {"mark_constant_generators", "load_external_nets_and_cb", "done"}
    \/ /\ stage = "failed"
       /\ \/ error = AssertFailed("num_primitives == g_atom_nl.blocks().size()")
          \/ error.kind = "throw" /\ error.what = ".net file missing atom"

\* C17: when, after all clusters have been processed, some block of the atom
\* netlist is bound to no pb, read_netlist fails with the reported error
\* that the .net file is missing that atom.
C17_UnboundAtomReported ==
    (atoms_checked /\ unbound_atoms(netlist, atom_pb) # <<>>) =>
        /\ stage = "failed"
        /\ error.kind = "throw"
        /\ error.what = ".net file missing atom"
        /\ error.arg \in Range(unbound_atoms(netlist, atom_pb))

\* Cluster i has a leaf pb with a name, which is bound to an atom.
has_leaf(i) == blist[i].child[LeafDepth].name # NULL

\* Every pb from the top-level pb of cluster i down to its leaf has a name.
leaf_reached(i) == \A d \in 1..LeafDepth : blist[i].child[d].name # NULL

\* The leaf of cluster i is not a primary input and no input pin and no
\* clock pin of it has an atom net in pb_route.
leaf_is_constant_generator(i) ==
    /\ pb_type_name(blist[i].type, LeafDepth) # "inpad"
    /\ \A p \in Range(port_pins(LeafDepth, "inputs")) \cup Range(port_pins(LeafDepth, "clocks")) :
            blist[i].pb_route[p].atom_net_id = INVALID_NET

\* The output pins of the leaf of cluster i carry no net but nets whose
\* driver pin is marked constant.
leaf_outputs_constant(i) ==
    \A p \in Range(port_pins(LeafDepth, "outputs")) :
        blist[i].pb_route[p].atom_net_id # INVALID_NET =>
            pin_is_constant(netlist, net_driver(netlist, blist[i].pb_route[p].atom_net_id))

constant_assertion == AssertFailed("g_atom_nl.pin_is_constant(driver_pin_id)")

marking_completed == stage \in {"load_external_nets_and_cb", "done"}

\* C18 (as stated): once mark_constant_generators has completed, a leaf pb
\* has been treated as a constant generator exactly when it is not a primary
\* input and none of its input and clock pins has an atom net, and the
\* driver of the net of every output pin of such a leaf is marked constant.
C18_EveryLeafMarked ==
    marking_completed =>
        \A i \in 1..Len(blist) :
            /\ (i - 1) \in reported <=> (has_leaf(i) /\ leaf_is_constant_generator(i))
            /\ (has_leaf(i) /\ leaf_is_constant_generator(i)) => leaf_outputs_constant(i)

\* C18: once mark_constant_generators has completed, a leaf pb has been
\* treated as a constant generator exactly when every pb above it has a
\* name, it is not a primary input and none of its input and clock pins has
\* an atom net; the driver of the net of every output pin of such a leaf is
\* marked constant, and the read that failed the assertion did so at a leaf
\* treated as a constant generator with an output net whose driver is not.
C18_ReachedLeafMarked ==
    /\ marking_completed =>
        \A i \in 1..Len(blist) :
            /\ (i - 1) \in reported <=> (leaf_reached(i) /\ leaf_is_constant_generator(i))
            /\ (i - 1) \in reported => leaf_outputs_constant(i)
    /\ (stage = "failed" /\ error = constant_assertion) =>
        \E i \in 1..Len(blist) :
            /\ (i - 1) \in reported
            /\ leaf_reached(i) /\ leaf_is_constant_generator(i)
            /\ ~leaf_outputs_constant(i)

\* The read has completed with a leaf treated as a constant generator whose
\* output pin carries a net.
C18_Witness ==
    /\ stage = "done"
    /\ \E i \in 1..Len(blist) :
        /\ (i - 1) \in reported
        /\ \E p \in Range(port_pins(LeafDepth, "outputs")) :
                blist[i].pb_route[p].atom_net_id # INVALID_NET

\* processPb has just read a child element named open for a free slot of its parent.
open_block_read ==
    /\ last_child.did # "none"
    /\ last_child.name = "open"
    /\ last_child.slot < num_pb
    /\ last_child.occupant = "none"

\* processPb is still at the children of the parent of the child element read last.
at_the_parent ==
    /\ stage = "processPb"
    /\ depth = last_child.depth - 1
    /\ step = "children"

filled(blk) ==
    \E p \in 0..(total_pb_pins - 1) :
        blk.pb_route[p].prev_pb_pin_id # OPEN /\ blk.pb_route[p].atom_net_id # INVALID_NET

\* C20 (as stated): the stages run in the order clusters, extraction of the
\* external nets (load_external_nets_and_cb), marking of the constant
\* generators (mark_constant_generators), and no cluster is filled before
\* all clusters have been populated.
C20_StagesAsStated ==
    [][/\ (stage = "blocks" /\ stage' \notin {"blocks", "processPb", "failed"}) =>
                stage' = "load_external_nets_and_cb"
       /\ stage' = "mark_constant_generators" =>
                stage \in {"load_external_nets_and_cb", "mark_constant_generators"}
       /\ stage' = "processPb" => \A i \in 1..(Len(blist') - 1) : ~filled(blist'[i])]_vars

\* C20: the stages run in the order clusters, marking of the constant
\* generators (mark_constant_generators), extraction of the external nets
\* (load_external_nets_and_cb); the transitive fill of a cluster runs at the
\* end of that cluster, before the next cluster is read, and no pb_route
\* changes once the clusters have been read.
C20_StageOrder ==
    [][/\ stage' # stage =>
            <<stage, stage'>> \in
                {<<"blocks", "processPb">>, <<"processPb", "blocks">>,
                 <<"blocks", "mark_constant_generators">>,
                 <<"mark_constant_generators", "load_external_nets_and_cb">>,
                 <<"load_external_nets_and_cb", "done">>}
                \cup {<<s, "failed">> : s \in {"blocks", "processPb",
                        "mark_constant_generators", "load_external_nets_and_cb"}}
       /\ (stage = "processPb" /\ stage' = "blocks") =>
            /\ blist'[Len(blist')].pb_route =
                    load_interal_to_block_net_nums(blist[Len(blist)].pb_route).pb_route
            /\ \A p \in 0..(total_pb_pins - 1) :
                    blist'[Len(blist')].pb_route[p].prev_pb_pin_id # OPEN =>
                        blist'[Len(blist')].pb_route[p].atom_net_id # INVALID_NET
       /\ stage # "processPb" =>
            \A i \in 1..Len(blist) : blist'[i].pb_route = blist[i].pb_route]_vars

\* The read has completed for two clusters, both filled, with a constant
\* generator reported and external nets loaded.
C20_Witness ==
    /\ stage = "done"
    /\ Len(blist) = 2
    /\ \A i \in 1..Len(blist) : filled(blist[i])
    /\ reported # {}
    /\ ext_nlist # <<>>

(***************************************************************************)
(* The truth-table utilities: truth_table_encodes_on_set,                  *)
(* truth_table_to_lut_mask, cube_to_minterms.  A truth table is a sequence *)
(* of rows of logic values, the last value of a row being the output; a    *)
(* mask is a sequence whose entry m + 1 is the value for minterm m.        *)
(***************************************************************************)
\* Largest number of inputs of the truth tables and cubes explored.
MaxInputs == 2

\* Largest number of rows of the truth tables explored.
MaxRows == 2

LogicValues == {"TRUE", "FALSE", "DONT_CARE"}

RECURSIVE pow(_, _)
pow(base, n) == IF n = 0 THEN 1 ELSE base * pow(base, n - 1)

\* The minterm number with the first input taken as the most significant bit.
RECURSIVE minterm_from_msb_first(_, _)
minterm_from_msb_first(cube, i) ==
    IF i > Len(cube) THEN 0
    ELSE (IF cube[i] = "TRUE" THEN pow(2, Len(cube) - i) ELSE 0)
            + minterm_from_msb_first(cube, i + 1)

\* The minterm number of a cube without don't care, from position i on:
\* the sum of the powers of two where the cube is true.
RECURSIVE minterm_from(_, _)
minterm_from(cube, i) ==
    IF i > Len(cube) THEN 0
    ELSE (IF cube[i] = "TRUE" THEN pow(2, i - 1) ELSE 0) + minterm_from(cube, i + 1)

\* cube_to_minterms_recurr appends to minterms; its loop over the positions
\* of the cube, from position i on, gives what the calls it makes append.
RECURSIVE cube_to_minterms_recurr(_, _)
RECURSIVE cube_to_minterms_loop(_, _)
cube_to_minterms_loop(cube, i) ==
    IF i > Len(cube) THEN <<>>
    ELSE IF cube[i] = "DONT_CARE"
    THEN LET cube_true == [cube EXCEPT ![i] = "TRUE"]
             cube_false == [cube EXCEPT ![i] = "FALSE"]
         IN cube_to_minterms_recurr(cube_false, cube_to_minterms_recurr(cube_true, <<>>))
                \o cube_to_minterms_loop(cube, i + 1)
    ELSE cube_to_minterms_loop(cube, i + 1)

cube_to_minterms_recurr(cube, minterms) ==
    LET cube_has_dc == \E i \in 1..Len(cube) : cube[i] = "DONT_CARE"
    IN minterms \o (IF cube_has_dc THEN cube_to_minterms_loop(cube, 1)
                    ELSE <<minterm_from(cube, 1)>>)

cube_to_minterms(cube) == cube_to_minterms_recurr(cube, <<>>)

truth_table_encodes_on_set(truth_table) ==
    IF truth_table = <<>> THEN [value |-> TRUE, failure |-> "none"]
    ELSE IF Len(truth_table[1]) = 0
    THEN [value |-> FALSE, failure |-> "Can not have an empty truth-table row"]
    ELSE LET out_val == truth_table[1][Len(truth_table[1])]
         IN IF out_val = "TRUE" THEN [value |-> TRUE, failure |-> "none"]
            ELSE IF out_val = "FALSE" THEN [value |-> FALSE, failure |-> "none"]
            ELSE [value |-> FALSE, failure |-> "Unrecognized truth-table output value"]

\* The loop of truth_table_to_lut_mask over the rows, from row r on.
RECURSIVE mark_rows(_, _, _, _, _)
mark_rows(truth_table, num_inputs, on_set, mask, r) ==
    IF r > Len(truth_table) THEN [value |-> mask, failure |-> "none"]
    ELSE LET row == truth_table[r]
             cube == SubSeq(row, 1, Len(row) - 1)
             minterms == Range(cube_to_minterms(cube))
         IN IF Len(cube) # num_inputs
            THEN [value |-> mask, failure |-> "cube.size() == num_inputs"]
            ELSE IF \E minterm \in minterms : minterm >= Len(mask)
            THEN [value |-> mask, failure |-> "minterm < mask.size()"]
            ELSE mark_rows(truth_table, num_inputs, on_set,
                    [m \in 1..Len(mask) |->
                        IF (m - 1) \in minterms
                        THEN (IF on_set THEN "TRUE" ELSE "FALSE")
                        ELSE mask[m]],
                    r + 1)

truth_table_to_lut_mask(truth_table, num_inputs) ==
    LET on_set == truth_table_encodes_on_set(truth_table)
        mask_bits == pow(2, num_inputs)
        mask == [m \in 1..mask_bits |-> IF on_set.value THEN "FALSE" ELSE "TRUE"]
    IN IF on_set.failure # "none" THEN [value |-> <<>>, failure |-> on_set.failure]
       ELSE mark_rows(truth_table, num_inputs, on_set.value, mask, 1)

(***************************************************************************)
(* The calls explored: the function and its arguments.                     *)
(***************************************************************************)
\* The sequences of length n over the set S.
SeqsOf(S, n) == [1..n -> S]

Cubes == UNION {SeqsOf(LogicValues, k) : k \in 0..MaxInputs}

Rows(k) == SeqsOf(LogicValues, k + 1)

\* The truth tables over k inputs: the tables of up to MaxRows rows whose rows
\* all carry the same output value, as the rows of a .names do, and the
\* tables of two rows of any output values.
UniformTables(k, n) ==
    UNION {SeqsOf({Append(cube, v) : cube \in SeqsOf(LogicValues, k)}, n) : v \in LogicValues}

TruthTables(k) ==
    UNION {UniformTables(k, n) : n \in 0..MaxRows} \cup SeqsOf(Rows(k), 2)

BlockTypes == {"INPAD", "OUTPAD", "COMBINATIONAL", "SEQUENTIAL"}

\* What is_buffer_lut reads of a block, for blocks of every type with up to
\* two ports and connected pins of each direction, and with the truth table
\* of a LUT of one input, or a single row of a LUT of two inputs.
BlocksRead ==
    [type : BlockTypes,
     model : {"names", "latch"},
     input_ports : 0..2,
     output_ports : 0..2,
     connected_input_pins : 0..2,
     connected_output_pins : 0..2,
     truth_table : TruthTables(1) \cup {<<row>> : row \in Rows(2)}]

Calls ==
    [fn : {"is_buffer_lut"}, blk : BlocksRead]
        \cup UNION {[fn : {"truth_table_to_lut_mask"}, truth_table : TruthTables(k),
                     num_inputs : {k, (k + 1) % (MaxInputs + 1)}] : k \in 0..MaxInputs}
        \cup [fn : {"cube_to_minterms"}, cube : Cubes]

UtilInit ==
    /\ netlist = NoNetlist
    /\ pc = "idle"
    /\ buffer_luts = <<>>
    /\ flags = NoFlags
    /\ swept = ZeroCounts
    /\ pass = ZeroCounts
    /\ ret = 0
    /\ failure = "none"
    /\ last_op = "none"
    /\ entry = NoNetlist
    /\ removed = 0
    /\ passes = 0
    /\ second = FALSE
    /\ last_buffer = NoBuffer
    /\ blist = <<>>
    /\ stage = "none"
    /\ depth = 0
    /\ step = "none"
    /\ children_read = [d \in 0..(LeafDepth - 1) |-> 0]
    /\ num_primitives = 0
    /\ atom_pb = <<>>
    /\ ext_nlist = <<>>
    /\ error = NoError
    /\ reported = {}
    /\ last_child = NoChild
    /\ last_port = NoPort
    /\ circuit_clocks = <<>>
    /\ document = "none"
    /\ call \in Calls
    /\ returned = FALSE
    /\ outcome = NoOutcome

IsBufferLut ==
    /\ call.fn = "is_buffer_lut"
    /\ ~returned
    /\ returned' = TRUE
    /\ outcome' = is_buffer_lut_checks(call.blk)
    /\ UNCHANGED <<sweep_vars, read_vars, call>>

TruthTableToLutMask ==
    /\ call.fn = "truth_table_to_lut_mask"
    /\ ~returned
    /\ returned' = TRUE
    /\ outcome' = truth_table_to_lut_mask(call.truth_table, call.num_inputs)
    /\ UNCHANGED <<sweep_vars, read_vars, call>>

CubeToMinterms ==
    /\ call.fn = "cube_to_minterms"
    /\ ~returned
    /\ returned' = TRUE
    /\ outcome' = [value |-> cube_to_minterms(call.cube), failure |-> "none"]
    /\ UNCHANGED <<sweep_vars, read_vars, call>>

UtilNext ==
    \/ IsBufferLut
    \/ TruthTableToLutMask
    \/ CubeToMinterms

UtilSpec == UtilInit /\ [][UtilNext]_vars

(***************************************************************************)
(* The claims about is_buffer_lut and the truth-table utilities.           *)
(***************************************************************************)
\* The rows '1 1' and '0 0'.
identity_rows == {<<"TRUE", "TRUE">>, <<"FALSE", "FALSE">>}

\* The block is a buffer LUT: combinational, of model names, one input port
\* and one output port, one connected input pin and one connected output
\* pin, a truth table of the single row '1 1' or '0 0'.
buffer_lut_conditions(b) ==
    /\ b.type = "COMBINATIONAL"
    /\ b.model = "names"
    /\ b.input_ports = 1 /\ b.output_ports = 1
    /\ b.connected_input_pins = 1 /\ b.connected_output_pins = 1
    /\ \E row \in identity_rows : b.truth_table = <<row>>

\* C21: is_buffer_lut returns true for a block exactly when the block is
\* combinational, of model names, with one input port and one output port,
\* one connected input pin and one connected output pin and a truth table of
\* the single row '1 1' or '0 0'; for every other block it returns false
\* without failing.
C21_IsBufferLutDecides ==
    (call.fn = "is_buffer_lut" /\ returned) =>
        outcome = [value |-> buffer_lut_conditions(call.blk), failure |-> "none"]

\* Bit i of the minterm number m is set.
bit(m, i) == (m \div pow(2, i)) % 2 = 1

\* The cube covers the minterm m, bit i of m being the value of input i.
covers(cube, m) ==
    \A i \in 1..Len(cube) : cube[i] = "DONT_CARE" \/ (cube[i] = "TRUE") = bit(m, i - 1)

covered_by_some_row(truth_table, m) ==
    \E r \in 1..Len(truth_table) :
        covers(SubSeq(truth_table[r], 1, Len(truth_table[r]) - 1), m)

\* The truth table is over num_inputs inputs and its first row, if any, has
\* the output TRUE or FALSE.
table_over(truth_table, num_inputs) ==
    /\ \A r \in 1..Len(truth_table) : Len(truth_table[r]) = num_inputs + 1
    /\ truth_table # <<>> => truth_table[1][num_inputs + 1] \in {"TRUE", "FALSE"}

\* C22: for a truth table over k inputs, truth_table_to_lut_mask returns a
\* mask of length 2^k; with the output of the first row TRUE, or an empty
\* table, entry m of the mask is TRUE exactly when some row covers the
\* minterm m (bit i of m being the value of input i), with the output of the
\* first row FALSE it is FALSE exactly when some row covers m; the mask of
\* the empty table is all FALSE.
C22_LutMaskOfTruthTable ==
    (call.fn = "truth_table_to_lut_mask" /\ returned
        /\ table_over(call.truth_table, call.num_inputs)) =>
            LET truth_table == call.truth_table
                on_set == truth_table = <<>> \/ truth_table[1][call.num_inputs + 1] = "TRUE"
            IN /\ outcome.failure = "none"
               /\ Len(outcome.value) = pow(2, call.num_inputs)
               /\ \A m \in 0..(pow(2, call.num_inputs) - 1) :
                    (outcome.value[m + 1] = "TRUE") =
                        (on_set = covered_by_some_row(truth_table, m))
               /\ \A m \in 0..(pow(2, call.num_inputs) - 1) :
                    outcome.value[m + 1] \in {"TRUE", "FALSE"}
               /\ truth_table = <<>> =>
                    \A m \in 0..(pow(2, call.num_inputs) - 1) : outcome.value[m + 1] = "FALSE"

\* The mask of a truth table of two rows over two inputs that encodes the
\* off-set, with a don't care in a row, has been returned.
C22_Witness ==
    /\ call.fn = "truth_table_to_lut_mask"
    /\ returned
    /\ call.num_inputs = 2
    /\ Len(call.truth_table) = 2
    /\ table_over(call.truth_table, call.num_inputs)
    /\ call.truth_table[1][3] = "FALSE"
    /\ call.truth_table[1][1] = "DONT_CARE"
    /\ call.truth_table[2][1] = "TRUE" /\ call.truth_table[2][2] = "FALSE"
    /\ outcome.failure = "none"

dont_cares(cube) == {i \in 1..Len(cube) : cube[i] = "DONT_CARE"}

\* C28: for a cube with d don't-care positions, cube_to_minterms returns
\* exactly the 2^d minterm numbers the cube covers, each exactly once.
C28_MintermsOnce ==
    (call.fn = "cube_to_minterms" /\ returned) =>
        /\ Range(outcome.value) =
                {m \in 0..(pow(2, Len(call.cube)) - 1) : covers(call.cube, m)}
        /\ Len(outcome.value) = pow(2, Cardinality(dont_cares(call.cube)))
        /\ Cardinality(Range(outcome.value)) = Len(outcome.value)

(***************************************************************************)
(* The clocks of the document and the external nets.                       *)
(***************************************************************************)
clock_nets(name) == {i \in 1..Len(ext_nlist) : ext_nlist[i].name = name}

\* C23: after a successful ingestion every name of the clocks section of
\* the document is the name of an external net whose is_global is set; a
\* name of a net that is not global, or of no external net, does not pass.
C23_ClocksNameGlobalNets ==
    stage = "done" =>
        \A k \in 1..Len(circuit_clocks) :
            \E i \in clock_nets(circuit_clocks[k]) : ext_nlist[i].is_global

(***************************************************************************)
(* The external nets of the clusters.                                      *)
(***************************************************************************)
\* The external pins of the clusters, <<cluster, pin>>, and their place in
\* the order load_external_nets_and_cb visits them.
external_pins == {<<i, j>> : i \in 1..Len(blist), j \in 0..(num_pins - 1)}

visit(p) == (p[1] - 1) * num_pins + p[2]

atom_net_of(p) == blist[p[1]].pb_route[p[2]].atom_net_id

pins_with_net == {p \in external_pins : atom_net_of(p) # INVALID_NET}

ext_index(p) == blist[p[1]].nets[p[2]]

first_visit(k) ==
    CHOOSE v \in {visit(p) : p \in pins_with_net} :
        /\ \E p \in pins_with_net : visit(p) = v /\ ext_index(p) = k
        /\ \A p \in pins_with_net : ext_index(p) = k => v <= visit(p)

\* The slots of external net k, slot 0 and the sinks, that list the pin p.
slots_listing(k, p) ==
    {s \in 0..ext_nlist[k + 1].num_sinks :
        /\ ext_nlist[k + 1].node_block[s] = p[1] - 1
        /\ ext_nlist[k + 1].node_block_pin[s] = p[2]}

\* C24: when load_external_nets_and_cb has returned, two pins of the clusters
\* have the same external net index exactly when their pb_route entries
\* carry atom nets of the same name, a pin without atom net has OPEN, the
\* indices are 0..ext_ncount-1 in the order of the first occurrence of the
\* names, and each pin with a net is listed exactly once by its net.
C24_ExternalNetsInterned ==
    stage = "done" =>
        /\ \A p \in external_pins \ pins_with_net : ext_index(p) = OPEN
        /\ \A p, q \in pins_with_net :
                (ext_index(p) = ext_index(q))
                    <=> (net_name(netlist, atom_net_of(p)) = net_name(netlist, atom_net_of(q)))
        /\ {ext_index(p) : p \in pins_with_net} = 0..(Len(ext_nlist) - 1)
        /\ \A k, l \in 0..(Len(ext_nlist) - 1) : k < l => first_visit(k) < first_visit(l)
        /\ \A p \in pins_with_net : Cardinality(slots_listing(ext_index(p), p)) = 1

\* Two external nets, the second met again after its first occurrence.
C24_Witness ==
    /\ stage = "done"
    /\ Len(ext_nlist) = 2
    /\ \E p, q \in pins_with_net : p # q /\ ext_index(p) = 1 /\ ext_index(q) = 1
    /\ \E p \in external_pins : atom_net_of(p) = INVALID_NET

(***************************************************************************)
(* The transitive fill, call by call.                                      *)
(***************************************************************************)
\* The net id at the end of the chain of prev_pb_pin_id links from entry p:
\* the net id of the first entry with one, INVALID_NET when the chain ends
\* at an entry without prev_pb_pin_id or is longer than the entries are many.
RECURSIVE chain_net(_, _, _)
chain_net(pb_route, p, links) ==
    IF pb_route[p].atom_net_id # INVALID_NET THEN pb_route[p].atom_net_id
    ELSE IF pb_route[p].prev_pb_pin_id = OPEN \/ links = 0 THEN INVALID_NET
    ELSE chain_net(pb_route, pb_route[p].prev_pb_pin_id, links - 1)

\* The entries the fill has to resolve: with a prev_pb_pin_id, without net id.
unresolved(pb_route) ==
    {p \in 0..(total_pb_pins - 1) :
        pb_route[p].prev_pb_pin_id # OPEN /\ pb_route[p].atom_net_id = INVALID_NET}

\* The fill of the cluster being read starts in this state.
fill_starts == stage = "processPb" /\ step = "children" /\ depth = 0

\* C25: the fill of a cluster (its prev_pb_pin_id links are acyclic) ends
\* after at most one assignment per entry: each entry with a prev_pb_pin_id
\* and without net id is assigned once, the net id of the first entry with
\* one up its chain of links, no other entry is assigned, and no entry is
\* assigned twice; the fill fails an assertion exactly when a chain ends at
\* an entry without net id.
C25_FillResolvesOnce ==
    [][fill_starts =>
        LET before == cb.pb_route
            fill == load_interal_to_block_net_nums(before)
            open_ended == {p \in unresolved(before) :
                                chain_net(before, p, total_pb_pins) = INVALID_NET}
        IN /\ Len(fill.resolved) <= Cardinality(unresolved(before))
           /\ Cardinality(Range(fill.resolved)) = Len(fill.resolved)
           /\ Range(fill.resolved) \subseteq unresolved(before)
           /\ \A p \in 0..(total_pb_pins - 1) :
                fill.pb_route[p].atom_net_id =
                    IF p \in Range(fill.resolved)
                    THEN chain_net(before, p, total_pb_pins)
                    ELSE before[p].atom_net_id
           /\ Failed(fill.error) <=> open_ended # {}
           /\ ~Failed(fill.error) => Range(fill.resolved) = unresolved(before)
           /\ step' = "none" =>
                /\ blist'[Len(blist)].pb_route = fill.pb_route
                /\ error' = fill.error]_vars

\* A fill done in which the entry of pin 4 was resolved by the call for pin
\* 1, whose chain is 1, 4, 6, before the loop came to pin 4.
C25_Witness ==
    /\ stage = "blocks"
    /\ Len(blist) > 0
    /\ blist[Len(blist)].nets # <<>>
    /\ blist[Len(blist)].pb_route[1].prev_pb_pin_id = 4
    /\ blist[Len(blist)].pb_route[4].prev_pb_pin_id = 6
    /\ blist[Len(blist)].pb_route[1].atom_net_id # INVALID_NET
    /\ blist[Len(blist)].pb_route[3].prev_pb_pin_id = OPEN

(***************************************************************************)
(* The atoms and the leaf pbs.                                             *)
(***************************************************************************)
\* The clusters whose leaf pb was bound: processPb has found its name in
\* the atom netlist.
bound_leaves == {i \in 1..Len(blist) : has_leaf(i)}

leaves_of(blk) ==
    {i \in bound_leaves : find_block(netlist, blist[i].child[LeafDepth].name) = blk}

\* C29: when read_netlist has completed, every block of the atom netlist is
\* bound by exactly one leaf pb, the map of the atom gives the cluster of
\* that leaf, and the leaf pbs counted are as many as the atom blocks.
C29_AtomsAndLeavesOneToOne ==
    stage = "done" =>
        /\ \A blk \in netlist.block_ids :
            /\ Cardinality(leaves_of(blk)) = 1
            /\ \A i \in leaves_of(blk) : atom_pb[blk] = <<i - 1>>
        /\ \A i \in bound_leaves :
                find_block(netlist, blist[i].child[LeafDepth].name) \in netlist.block_ids
        /\ num_primitives = Cardinality(bound_leaves)
        /\ num_primitives = Cardinality(netlist.block_ids)

\* A completed read of two clusters that bind the two atoms.
C29_Witness ==
    /\ stage = "done"
    /\ Cardinality(netlist.block_ids) = 2
    /\ Cardinality(bound_leaves) = 2

(***************************************************************************)
(* The sweeps, step by step.                                               *)
(***************************************************************************)
\* The step is a call of the sweep of the given name on its own.
sweep_step(name) == pc = "idle" /\ pc' = "idle" /\ last_op' = name

\* The OUTPADs of the netlist whose input pins are all unconnected or on a
\* constant net.
constant_primary_outputs(nl) ==
    {blk \in nl.block_ids :
        /\ block_type(blk) = "OUTPAD"
        /\ \A pin \in block_input_pins(blk) :
                \/ pin_net(nl, pin) = INVALID_NET
                \/ net_is_constant(nl, pin_net(nl, pin))}

\* C26: sweep_constant_primary_outputs removes exactly the OUTPADs whose
\* input pins are all unconnected or on a constant net, every other block
\* stays, and it returns the number of blocks it has removed.
C26_ConstantOutputsSwept ==
    [][sweep_step("sweep_constant_primary_outputs") =>
        /\ netlist'.block_ids = netlist.block_ids \ constant_primary_outputs(netlist)
        /\ ret' = Cardinality(netlist.block_ids \ netlist'.block_ids)]_vars

\* After sweep_constant_primary_outputs on its own: the OUTPAD is removed,
\* and the constant net it was on is still there.
C26_Witness ==
    /\ last_op = "sweep_constant_primary_outputs"
    /\ ret = 1
    /\ "po" \notin netlist.block_ids
    /\ \E net \in netlist.net_ids : net_is_constant(netlist, net)

\* The sweeps that remove blocks.
block_sweep_step ==
    \E name \in {"sweep_blocks", "sweep_inputs", "sweep_outputs",
                 "sweep_constant_primary_outputs"} : sweep_step(name)

\* The nets of the netlist without driver or without sink.
dangling_nets(nl) ==
    {net \in nl.net_ids : net_driver(nl, net) = INVALID_PIN \/ Len(net_sinks(nl, net)) = 0}

\* C27: sweep_blocks, sweep_inputs, sweep_outputs and
\* sweep_constant_primary_outputs remove no net and rename none; of each net
\* they only detach the pins of the blocks removed, a driver leaving the
\* driver of the net invalid and a sink leaving the list of sinks; the blocks
\* sweep_blocks removes are neither INPAD nor OUTPAD.
C27_BlockSweepsKeepNets ==
    [][block_sweep_step =>
        LET gone == netlist.block_ids \ netlist'.block_ids
        IN /\ netlist'.net_ids = netlist.net_ids
           /\ netlist'.net_names = netlist.net_names
           /\ \A net \in netlist.net_ids :
                /\ netlist'.net_driver[net] =
                        IF netlist.net_driver[net] # INVALID_PIN
                              /\ netlist.net_driver[net][1] \in gone
                        THEN INVALID_PIN ELSE netlist.net_driver[net]
                /\ netlist'.net_sinks[net] =
                        SelectSeq(netlist.net_sinks[net], LAMBDA p : p[1] \notin gone)
           /\ sweep_step("sweep_blocks") =>
                \A blk \in gone : block_type(blk) \notin {"INPAD", "OUTPAD"}]_vars

\* After sweep_blocks has removed blocks: a net is left without sink, and
\* stays in the netlist.
C27_Witness ==
    /\ last_op = "sweep_blocks"
    /\ ret > 0
    /\ \E net \in dangling_nets(netlist) :
            net_driver(netlist, net) # INVALID_PIN /\ block_type(net_driver(netlist, net)[1]) # "INPAD"

(***************************************************************************)
(* absorb_buffer_luts, called again.                                       *)
(***************************************************************************)
\* absorb_buffer_luts has returned and nothing was called since.
absorb_returned == pc = "idle" /\ last_op = "absorb_buffer_luts"

\* The live blocks that is_buffer_lut accepts.
buffers_left == {blk \in netlist.block_ids : is_buffer_lut(netlist, blk)}

\* The input net of the block is driven by an INPAD and a sink of its input
\* net or of its output net is on an OUTPAD.
between_pads(blk) ==
    LET input_net == pin_net(netlist, InPin(blk))
        output_net == pin_net(netlist, OutPin(blk))
    IN /\ block_type(pin_block(net_driver(netlist, input_net))) = "INPAD"
       /\ OnOutpad(SinksOf(netlist, input_net) \cup SinksOf(netlist, output_net))

\* C30: when absorb_buffer_luts has returned, every block that is still a
\* buffer LUT has its input net driven by an INPAD and an OUTPAD among the
\* sinks of its input and output nets, and a second call leaves the netlist
\* as it is; each buffer absorbed leaves one block less and one net less.
C30_AbsorbIdempotent ==
    /\ absorb_returned =>
        /\ \A blk \in buffers_left : between_pads(blk)
        /\ absorb_buffer_luts(netlist) = [netlist |-> netlist, failure |-> "none"]
    /\ (Handled /\ Absorbed) =>
        /\ Cardinality(netlist.block_ids) = Cardinality(Before.block_ids) - 1
        /\ Cardinality(netlist.net_ids) = Cardinality(Before.net_ids) - 1

\* absorb_buffer_luts has returned with one buffer of a chain of two
\* absorbed and the other left between the INPAD and the OUTPAD.
C30_Witness ==
    /\ absorb_returned
    /\ Cardinality(buffers_left) = 1
    /\ Cardinality({"b1", "b2"} \cap netlist.block_ids) = 1
    /\ \A blk \in buffers_left :
        /\ net_driver(netlist, pin_net(netlist, InPin(blk))) = OutPin("pi")
        /\ net_sinks(netlist, pin_net(netlist, OutPin(blk))) = <<InPin("po")>>

====
